---- MODULE Spec2Model ----
(***************************************************************************)
(* A model of the loading engine of the ORR results reporter               *)
(* (src/src/orr/dataloading.py): converters, AutoAttr bindings,            *)
(* load_object, the id registries and the root/election load pass with the *)
(* header/contest linking.                                                 *)
(*                                                                         *)
(* Python values are tagged records, so that `x is None`, `not x` and      *)
(* dict lookups are computed the way Python computes them.                 *)
(***************************************************************************)
EXTENDS Integers, Sequences, FiniteSets, TLC

VARIABLES
    call,      \* a function called on its own: its name and its arguments
    pc,        \* the position of the running call
    data,      \* the dict a load_object call consumes (election.json at the root)
    data0,     \* the dict as it was passed in (history)
    context,   \* the Jinja2 context dict: name -> value
    stagelog,  \* the root stages started so far, each with the names published then (history)
    err,       \* the exception that ended the call, NoErr while none
    returned,  \* what the top-level call returned, Null while nothing
    ai,        \* index of the auto_attr (or object, or ballot item) being processed
    obj,       \* load_object: the model object under construction
    popped,    \* load_object: data key -> the attr_names of the bindings that removed it (history)
    loader,    \* load_object: the name of the Loader class in use
    seq,       \* load_objects_to_mapping: the raw records
    objects,   \* load_objects_to_mapping: the loaded objects
    mapping,   \* create_mapping_by_id: the OrderedDict under construction
    edata,     \* load_election: the election dict being consumed
    election,  \* load_election: the Election object under construction
    eai,       \* load_election: index of the election's auto_attr being processed
    li,        \* load_headers, load_contests: index of the ballot item being linked
    headers_by_id,   \* load_headers: the Header registry, None before it is built
    contests_by_id   \* load_contests: the Contest registry, None before it is built

vars == <<call, pc, data, data0, context, stagelog, err, returned, ai, obj, popped,
          loader, seq, objects, mapping, edata, election, eai, li, headers_by_id,
          contests_by_id>>

----------------------------------------------------------------------------
(* Python values *)

Null == [t |-> "null"]
Str(s) == [t |-> "str", v |-> s]
Num(n) == [t |-> "int", v |-> n]
Bool(b) == [t |-> "bool", v |-> b]
List(q) == [t |-> "list", v |-> q]
Dict(f) == [t |-> "dict", v |-> f]
Reg(q) == [t |-> "reg", v |-> q]
Func(name) == [t |-> "func", v |-> name]

\* A model object is the record of its attributes ("__class__" among them).
IsObject(x) == "__class__" \in DOMAIN x

IsNone(x) == ~IsObject(x) /\ x.t = "null"

\* Python's truth test, `not x`.
Falsy(x) ==
    CASE IsObject(x) -> FALSE
      [] x.t = "null" -> TRUE
      [] x.t = "str" -> x.v = ""
      [] x.t = "int" -> x.v = 0
      [] x.t = "bool" -> ~x.v
      [] x.t \in {"list", "reg"} -> Len(x.v) = 0
      [] x.t = "dict" -> DOMAIN x.v = {}
      [] OTHER -> FALSE

EmptyDict == [k \in {} |-> Null]

\* dict.pop(key, None): the value and the dict without the key.
DictGet(d, key) == IF key \in DOMAIN d THEN d[key] ELSE Null
DictDel(d, key) == [k \in DOMAIN d \ {key} |-> d[k]]
DictSet(d, key, value) == [k \in DOMAIN d \cup {key} |-> IF k = key THEN value ELSE d[k]]

\* Exceptions.  kind names the raise statement; the other fields are what its
\* message names.  process_auto_attr re-raises every exception as a
\* RuntimeError chained to it: kind is the kind of the first exception raised.
\* No function is called on its own: a load is running.
NoCall == [fn |-> "none"]

NoErr == [kind |-> "none"]
Failed(r) == r.err.kind # "none"
Ok(value) == [err |-> NoErr, val |-> value]
Raise(e) == [err |-> e, val |-> Null]

----------------------------------------------------------------------------
(* Converters *)

\* The first character of the strings the model uses (value[0]).
FirstChar(s) ==
    CASE s = "Y" -> "Y"
      [] s = "n" -> "n"
      [] s = "maybe" -> "m"
      [] s = "2" -> "2"
      [] s = "1" -> "1"
      [] s = "0" -> "0"
      [] s = "true" -> "t"
      [] s = "False" -> "F"
      [] s = "y" -> "y"
      [] s = "N" -> "N"
      [] s = "042" -> "0"
      [] s = "abc" -> "a"
      [] s = "2016-11-08" -> "2"
      [] OTHER -> "?"

parse_as_is(value) == Ok(value)

parse_id(value) == Ok(value)

parse_i18n(value) == Ok(value)

\* int(value) for the numerals the model uses; -1 stands for ValueError.
IntOfText(s) ==
    CASE s = "0" -> 0
      [] s = "1" -> 1
      [] s = "2" -> 2
      [] s = "042" -> 42
      [] OTHER -> -1

\* On ValueError the code builds a RuntimeError and does not raise it: the
\* value is returned as it came.
parse_int(value) ==
    IF IsNone(value) \/ (value.t = "str" /\ value.v = "") THEN Ok(Null)
    ELSE IF value.t = "int" THEN Ok(value)
    ELSE IF value.t = "bool" THEN Ok(Num(IF value.v THEN 1 ELSE 0))
    ELSE IF value.t = "str" /\ IntOfText(value.v) >= 0 THEN Ok(Num(IntOfText(value.v)))
    ELSE IF value.t = "str" THEN Ok(value)
    ELSE Raise([kind |-> "TypeError", what |-> "int()"])

parse_bool_CaseSensitive(value) ==
    IF value.t = "str" THEN
        IF value.v = "" THEN Ok(Null)
        ELSE IF FirstChar(value.v) \in {"Y", "T", "1"} THEN Ok(Bool(TRUE))
        ELSE IF FirstChar(value.v) \in {"N", "F", "0"} THEN Ok(Bool(FALSE))
        ELSE Raise([kind |-> "InvalidValue", conv |-> "parse_bool", raw |-> value])
    ELSE IF value.t = "int" THEN Ok(Bool(value.v # 0))
    ELSE IF value.t # "bool" /\ ~IsNone(value) THEN
        Raise([kind |-> "InvalidValue", conv |-> "parse_bool", raw |-> value])
    ELSE Ok(value)

parse_bool(value) ==
    IF value.t = "str" THEN
        IF value.v = "" THEN Ok(Null)
        ELSE IF FirstChar(value.v) \in {"Y", "y", "T", "t", "1"} THEN Ok(Bool(TRUE))
        ELSE IF FirstChar(value.v) \in {"N", "n", "F", "f", "0"} THEN Ok(Bool(FALSE))
        ELSE Raise([kind |-> "InvalidValue", conv |-> "parse_bool", raw |-> value])
    ELSE IF value.t = "int" THEN Ok(Bool(value.v # 0))
    ELSE IF value.t # "bool" /\ ~IsNone(value) THEN
        Raise([kind |-> "InvalidValue", conv |-> "parse_bool", raw |-> value])
    ELSE Ok(value)

\* strptime(value, '%Y-%m-%d'): the well-formed dates of the model.
parse_date(value) ==
    IF value.t = "str" /\ value.v \in {"2016-11-08"} THEN Ok(value)
    ELSE Raise([kind |-> "InvalidValue", conv |-> "parse_date", raw |-> value])

----------------------------------------------------------------------------
(* Id registries: OrderedDict id -> object, a sequence of entries in          *)
(* insertion order.                                                          *)

Entry(key, value) == [key |-> key, val |-> value]
Keys(m) == {m[i].key : i \in 1..Len(m)}
HasKey(m, key) == \E i \in 1..Len(m) : m[i].key = key
Lookup(m, key) == m[CHOOSE i \in 1..Len(m) : m[i].key = key].val

\* mapping[obj.id] = obj, for a key the check above found absent.
StoreById(m, o) == Append(m, Entry(o.id, o))

StoreOverwriting(m, o) ==
    IF HasKey(m, o.id)
    THEN [i \in 1..Len(m) |-> IF m[i].key = o.id THEN Entry(o.id, o) ELSE m[i]]
    ELSE Append(m, Entry(o.id, o))

add_object_by_id_NoIdCheck(m, o) ==
    IF HasKey(m, o.id) THEN Raise([kind |-> "DuplicateId", obj |-> o])
    ELSE Ok(StoreById(m, o))

add_object_by_id_Overwrite(m, o) ==
    IF Falsy(o.id) THEN Raise([kind |-> "MissingId", obj |-> o])
    ELSE Ok(StoreOverwriting(m, o))

add_object_by_id(m, o) ==
    IF Falsy(o.id) THEN Raise([kind |-> "MissingId", obj |-> o])
    ELSE IF HasKey(m, o.id) THEN Raise([kind |-> "DuplicateId", obj |-> o])
    ELSE Ok(StoreById(m, o))

RECURSIVE AddAll(_, _, _)
AddNext(r, objs, i) == IF Failed(r) THEN r ELSE AddAll(r.val, objs, i + 1)

\* The loop of create_mapping_by_id from the i-th object on.
AddAll(m, objs, i) ==
    IF i > Len(objs) THEN Ok(Reg(m))
    ELSE AddNext(add_object_by_id(m, objs[i]), objs, i)

create_mapping_by_id(objs) == AddAll(<<>>, objs, 1)

index_objects_OneBased(objs) ==
    [i \in 1..Len(objs) |-> [a \in DOMAIN objs[i] \cup {"index"} |->
        IF a = "index" THEN Num(i) ELSE objs[i][a]]]

\* obj.index = position, starting with 0.
index_objects(objs) ==
    [i \in 1..Len(objs) |-> [a \in DOMAIN objs[i] \cup {"index"} |->
        IF a = "index" THEN Num(i - 1) ELSE objs[i][a]]]

----------------------------------------------------------------------------
(* AutoAttr bindings and the Loader classes *)

\* data_key=False: the binding reads nothing from the data.
NoDataKey == "<False>"

AutoAttr(attr_name, load_value, data_key, context_keys, unpack_context) ==
    [attr_name |-> attr_name, load_value |-> load_value, data_key |-> data_key,
     context_keys |-> context_keys, unpack_context |-> unpack_context]

\* A tuple (attr_name, load_value) or (attr_name, load_value, data_key) of an
\* auto_attrs list, as process_auto_attr turns it into an AutoAttr.
Attr2(attr_name, load_value) == AutoAttr(attr_name, load_value, attr_name, {}, FALSE)
Attr3(attr_name, load_value, data_key) == AutoAttr(attr_name, load_value, data_key, {}, FALSE)

VotingGroupLoader ==
    [model_class |-> "ResultStatType",
     auto_attrs |-> << Attr3("id", "parse_id", "_id"),
                       Attr2("heading", "parse_i18n") >>]

ResultStatTypeLoader ==
    [model_class |-> "ResultStatType",
     auto_attrs |-> << Attr3("id", "parse_id", "_id"),
                       Attr2("heading", "parse_i18n"),
                       Attr2("is_percent", "parse_bool") >>]

ResultStyleLoader ==
    [model_class |-> "ResultStyle",
     auto_attrs |-> << Attr3("id", "parse_id", "_id"),
                       Attr2("description", "parse_i18n"),
                       Attr2("is_rcv", "parse_bool"),
                       AutoAttr("voting_groups", "load_result_voting_groups",
                                "voting_group_ids", {"voting_groups_by_id"}, TRUE),
                       AutoAttr("result_stat_types", "load_stat_types",
                                "result_stat_type_ids", {"result_stat_types_by_id"}, TRUE) >>]

AreaLoader ==
    [model_class |-> "Area",
     auto_attrs |-> << Attr3("id", "parse_id", "_id"),
                       Attr2("classification", "parse_as_is"),
                       Attr2("name", "parse_i18n"),
                       Attr2("short_name", "parse_i18n"),
                       Attr2("is_vbm", "parse_bool"),
                       Attr2("consolidated_ids", "parse_as_is"),
                       Attr2("reporting_group_ids", "parse_as_is") >>]

HeaderLoader ==
    [model_class |-> "Header",
     auto_attrs |-> << Attr3("id", "parse_id", "_id"),
                       Attr2("ballot_title", "parse_i18n"),
                       Attr2("classification", "parse_as_is"),
                       AutoAttr("_header_id", "parse_as_is", "header_id", {}, FALSE) >>]

ChoiceLoader ==
    [model_class |-> "Choice",
     auto_attrs |-> << Attr3("id", "parse_id", "_id"),
                       Attr2("ballot_title", "parse_i18n") >>]

CandidateLoader ==
    [model_class |-> "Candidate",
     auto_attrs |-> << Attr3("id", "parse_id", "_id"),
                       Attr2("ballot_title", "parse_i18n"),
                       Attr2("ballot_designation", "parse_i18n"),
                       Attr2("candidate_party", "parse_i18n") >>]

ContestLoader ==
    [model_class |-> "Contest",
     auto_attrs |-> << Attr3("id", "parse_id", "_id"),
                       Attr2("ballot_subtitle", "parse_i18n"),
                       Attr2("ballot_title", "parse_i18n"),
                       Attr2("choice_names", "parse_as_is"),
                       Attr3("choices_by_id", "load_choices", "choices"),
                       AutoAttr("_header_id", "parse_as_is", "header_id", {}, FALSE),
                       Attr2("instructions_text", "parse_as_is"),
                       Attr2("is_partisan", "parse_as_is"),
                       Attr2("number_elected", "parse_as_is"),
                       Attr2("question_text", "parse_as_is"),
                       AutoAttr("result_style", "load_contest_result_style",
                                "result_style", {"result_styles_by_id"}, TRUE),
                       AutoAttr("results_mapping", "load_results_mapping",
                                NoDataKey, {}, FALSE),
                       AutoAttr("voting_district", "load_voting_district",
                                "voting_district", {"areas_by_id"}, TRUE),
                       Attr2("type", "parse_as_is"),
                       Attr2("vote_for_msg", "parse_as_is"),
                       Attr2("writeins_allowed", "parse_int"),
                       AutoAttr("_load_contest_results_data", "make_contest_results_loader",
                                NoDataKey, {}, FALSE) >>]

ElectionLoader ==
    [model_class |-> "Election",
     auto_attrs |-> << Attr2("ballot_title", "parse_i18n"),
                       Attr3("date", "parse_date", "election_date"),
                       Attr2("election_area", "parse_i18n"),
                       Attr3("headers_by_id", "load_headers", "headers"),
                       AutoAttr("contests_by_id", "load_contests", "contests",
                                {"areas_by_id", "result_styles_by_id", "voting_groups_by_id"},
                                FALSE),
                       AutoAttr("_load_contest_status_data", "make_contest_status_loader",
                                NoDataKey, {}, FALSE) >>]

RootLoader_ElectionFirst ==
    [model_class |-> "ModelRoot",
     auto_attrs |-> << Attr2("languages", "parse_as_is"),
                       Attr2("translations", "parse_as_is"),
                       AutoAttr("election", "load_election", "election",
                                {"areas_by_id", "result_styles_by_id", "voting_groups_by_id"},
                                FALSE),
                       Attr3("result_stat_types_by_id", "load_result_stat_types",
                             "result_stat_types"),
                       Attr3("voting_groups_by_id", "load_voting_groups", "voting_groups"),
                       AutoAttr("result_styles_by_id", "load_result_styles", "result_styles",
                                {"result_stat_types_by_id", "voting_groups_by_id"}, FALSE),
                       Attr3("areas_by_id", "load_areas", "areas") >>]

RootLoader ==
    [model_class |-> "ModelRoot",
     auto_attrs |-> << Attr2("languages", "parse_as_is"),
                       Attr2("translations", "parse_as_is"),
                       Attr3("result_stat_types_by_id", "load_result_stat_types",
                             "result_stat_types"),
                       Attr3("voting_groups_by_id", "load_voting_groups", "voting_groups"),
                       AutoAttr("result_styles_by_id", "load_result_styles", "result_styles",
                                {"result_stat_types_by_id", "voting_groups_by_id"}, FALSE),
                       Attr3("areas_by_id", "load_areas", "areas"),
                       AutoAttr("election", "load_election", "election",
                                {"areas_by_id", "result_styles_by_id", "voting_groups_by_id"},
                                FALSE) >>]

LoaderNamed(name) ==
    CASE name = "VotingGroupLoader" -> VotingGroupLoader
      [] name = "ResultStatTypeLoader" -> ResultStatTypeLoader
      [] name = "ResultStyleLoader" -> ResultStyleLoader
      [] name = "AreaLoader" -> AreaLoader
      [] name = "HeaderLoader" -> HeaderLoader
      [] name = "ChoiceLoader" -> ChoiceLoader
      [] name = "CandidateLoader" -> CandidateLoader
      [] name = "ContestLoader" -> ContestLoader
      [] name = "ElectionLoader" -> ElectionLoader
      [] name = "RootLoader" -> RootLoader

CONTEST_TO_CHOICE_LOADER_OneLoader ==
    [office |-> "ChoiceLoader", measure |-> "ChoiceLoader", ynoffice |-> "ChoiceLoader"]

\* Dict mapping contest data "_type" name to choice loader class.
CONTEST_TO_CHOICE_LOADER ==
    [office |-> "CandidateLoader", measure |-> "ChoiceLoader", ynoffice |-> "ChoiceLoader"]

\* model_cls(**cls_info): the attributes the constructors of orr.datamodel give
\* a new object.  A Header starts with no ballot items and no parent; a
\* Contest with no parent.  __class__ is the object's class.
NewObject(model_class, cls_info) ==
    LET base == "__class__" :> Str(model_class)
        own == CASE model_class = "Header" ->
                      [ballot_items |-> List(<<>>), parent_header |-> Null]
                 [] model_class = "Contest" ->
                      [parent_header |-> Null]
                 [] OTHER -> EmptyDict
    IN cls_info @@ own @@ base

----------------------------------------------------------------------------
(* process_key, process_auto_attr, load_object *)

RegGet(reg, key) ==
    IF reg.t # "reg" THEN Raise([kind |-> "TypeError", what |-> "not subscriptable"])
    ELSE IF HasKey(reg.v, key) THEN Ok(Lookup(reg.v, key))
    ELSE Raise([kind |-> "KeyError", key |-> key])

\* orr.datamodel.parse_ids_text: the ids of a space-separated list, for the
\* texts the model uses.
parse_ids_text(ids_text) ==
    CASE ids_text.v = "" -> <<>>
      [] ids_text.v = "a b" -> <<Str("a"), Str("b")>>
      [] ids_text.v = "b a" -> <<Str("b"), Str("a")>>
      [] OTHER -> <<ids_text>>

RECURSIVE GetEach(_, _, _, _)
GetNext(reg, ids, acc, i, r) ==
    IF Failed(r) THEN r ELSE GetEach(reg, ids, Append(acc, r.val), i + 1)

\* objects = [objects_by_id[_id] for _id in ids]
GetEach(reg, ids, acc, i) ==
    IF i > Len(ids) THEN Ok(List(acc))
    ELSE GetNext(reg, ids, acc, i, RegGet(reg, ids[i]))

ids_text_to_objects(ids_text, objects_by_id) ==
    GetEach(objects_by_id, parse_ids_text(ids_text), <<>>, 1)

load_stat_types(ids_text, result_stat_types_by_id) ==
    ids_text_to_objects(ids_text, result_stat_types_by_id)

\* The derived voting_group_indexes_by_id (orr.datamodel.make_indexes_by_id)
\* is not part of the model.
load_result_voting_groups(ids_text, voting_groups_by_id) ==
    ids_text_to_objects(ids_text, voting_groups_by_id)

load_contest_result_style(value, result_styles_by_id) == RegGet(result_styles_by_id, value)

load_voting_district_Unresolved(value, areas_by_id) == Ok(value)

load_voting_district(value, areas_by_id) == RegGet(areas_by_id, value)

load_results_mapping(contest) ==
    IF contest.choices_by_id.t # "reg" THEN
        Raise([kind |-> "TypeError", what |-> "len()"])
    ELSE IF IsNone(contest.result_style) THEN
        Raise([kind |-> "AttributeError", what |-> "result_stat_types"])
    ELSE Ok([t |-> "ResultsMapping",
             result_stat_types |-> contest.result_style.result_stat_types,
             choice_count |-> Len(contest.choices_by_id.v)])

make_load_value_kwargs_Unchecked(attr, ctx) ==
    Ok([k \in attr.context_keys |-> DictGet(ctx, k)])

\* Only the context keys that are needed are passed on, unpacked into kwargs
\* or as one context dict: a name -> value function either way.
make_load_value_kwargs(attr, ctx) ==
    IF attr.context_keys # {} /\ ~(attr.context_keys \subseteq DOMAIN ctx)
    THEN Raise([kind |-> "MissingDependency", missing |-> attr.context_keys \ DOMAIN ctx,
                load_value |-> attr.load_value])
    ELSE Ok([k \in attr.context_keys |-> ctx[k]])

LoadState(o, d) == [err |-> NoErr, obj |-> o, data |-> d, popped |-> EmptyDict]

RECURSIVE load_object(_, _, _, _)

RECURSIVE LoadEach(_, _, _, _, _, _)

\* load_single_contest: the contest's "_type" is popped before load_object
\* runs and handed to the constructor.  (The election back reference and the
\* registries also handed to it are not stored in the model's Contest.)
load_single_contest(d, ctx) ==
    IF "_type" \notin DOMAIN d THEN
        [LoadState(EmptyDict, d) EXCEPT !.err = [kind |-> "MissingType", data |-> d]]
    ELSE IF ~({"areas_by_id", "voting_groups_by_id"} \subseteq DOMAIN ctx) THEN
        [LoadState(EmptyDict, d) EXCEPT !.err = [kind |-> "KeyError", key |-> Str("context")]]
    ELSE load_object("ContestLoader", DictDel(d, "_type"), [type_name |-> d["_type"]], ctx)

\* load_data(data) for the load_data functions handed to
\* load_objects_to_mapping: load_single_contest, or load_object with a Loader.
load_data(kind, d, cls_info, ctx) ==
    IF kind = "load_single_contest" THEN load_single_contest(d, ctx)
    ELSE load_object(kind, d, cls_info, ctx)

\* The list comprehension's next step, r being the object just loaded.
LoadEachNext(kind, items, cls_info, ctx, acc, i, r) ==
    IF Failed(r) THEN Raise(r.err)
    ELSE LoadEach(kind, items, cls_info, ctx, Append(acc, r.obj), i + 1)

\* objects = [load_data(data) for data in seq]
LoadEach(kind, items, cls_info, ctx, acc, i) ==
    IF i > Len(items) THEN Ok(acc)
    ELSE LoadEachNext(kind, items, cls_info, ctx, acc, i,
                      load_data(kind, items[i].v, cls_info, ctx))

\* index_objects (if asked for) and create_mapping_by_id on the loaded objects.
MapLoaded(should_index, loaded) ==
    IF Failed(loaded) THEN loaded
    ELSE create_mapping_by_id(IF should_index THEN index_objects(loaded.val)
                              ELSE loaded.val)

load_objects_to_mapping(kind, items, should_index, cls_info, ctx) ==
    MapLoaded(should_index, LoadEach(kind, items.v, cls_info, ctx, <<>>, 1))

\* The Loader class load_choices picks for the contest's type name.
ChoiceLoaderFor(contest) ==
    IF contest.type_name.t = "str" /\ contest.type_name.v \in DOMAIN CONTEST_TO_CHOICE_LOADER
    THEN CONTEST_TO_CHOICE_LOADER[contest.type_name.v]
    ELSE "KeyError"

\* The load_value functions that build a registry with load_objects_to_mapping:
\* the load_data each uses, whether it indexes, the context it hands down.
MappingLoaders ==
    {"load_choices", "load_result_stat_types", "load_voting_groups", "load_result_styles",
     "load_areas"}

LoadDataOf(fname, o) ==
    CASE fname = "load_choices" -> ChoiceLoaderFor(o)
      [] fname = "load_result_stat_types" -> "ResultStatTypeLoader"
      [] fname = "load_voting_groups" -> "VotingGroupLoader"
      [] fname = "load_result_styles" -> "ResultStyleLoader"
      [] fname = "load_areas" -> "AreaLoader"

\* self.load_value(loader, value, **kwargs), by the function's name.
LoadValue(fname, o, value, kw) ==
    CASE fname = "parse_as_is" -> parse_as_is(value)
      [] fname = "parse_id" -> parse_id(value)
      [] fname = "parse_i18n" -> parse_i18n(value)
      [] fname = "parse_int" -> parse_int(value)
      [] fname = "parse_bool" -> parse_bool(value)
      [] fname = "parse_date" -> parse_date(value)
      [] fname = "load_stat_types" -> load_stat_types(value, kw["result_stat_types_by_id"])
      [] fname = "load_result_voting_groups" ->
            load_result_voting_groups(value, kw["voting_groups_by_id"])
      [] fname = "load_contest_result_style" ->
            load_contest_result_style(value, kw["result_styles_by_id"])
      [] fname = "load_voting_district" -> load_voting_district(value, kw["areas_by_id"])
      [] fname = "load_results_mapping" -> load_results_mapping(o)
      [] fname = "make_contest_results_loader" -> Ok(Func("load_contest_results"))
      [] fname = "make_contest_status_loader" -> Ok(Func("load_contest_status"))
      [] fname \in MappingLoaders ->
            IF LoadDataOf(fname, o) = "KeyError"
            THEN Raise([kind |-> "InvalidContestType", type_name |-> o.type_name])
            ELSE load_objects_to_mapping(LoadDataOf(fname, o), value,
                                         fname = "load_choices", EmptyDict,
                                         IF fname = "load_result_styles" THEN kw
                                         ELSE EmptyDict)

\* process_key's result: what load_value returned (or raised) and the data
\* left.
KeyResult(r, rest) == [err |-> r.err, val |-> r.val, data |-> rest]

CallLoadValue(attr, o, value, rest, kw) ==
    IF Failed(kw) THEN KeyResult(kw, rest)
    ELSE KeyResult(LoadValue(attr.load_value, o, value, kw.val), rest)

\* The value for the binding's attribute and the data without its key.  A
\* binding whose key is absent (or null) returns None before anything else.
process_key(attr, o, d, ctx) ==
    IF attr.data_key = NoDataKey THEN
        CallLoadValue(attr, o, Null, d, make_load_value_kwargs(attr, ctx))
    ELSE IF IsNone(DictGet(d, attr.data_key)) THEN
        KeyResult(Ok(Null), DictDel(d, attr.data_key))
    ELSE CallLoadValue(attr, o, DictGet(d, attr.data_key), DictDel(d, attr.data_key),
                       make_load_value_kwargs(attr, ctx))

\* popped with the key the binding removed from the data, if it held it.
PopLog(attr, st) ==
    IF attr.data_key # NoDataKey /\ attr.data_key \in DOMAIN st.data
    THEN DictSet(st.popped, attr.data_key, attr.attr_name)
    ELSE st.popped

\* setattr(model_obj, attr.attr_name, value), unless process_key raised.
SetAttr(attr, st, r) ==
    IF r.err.kind # "none"
    THEN [err |-> r.err, obj |-> st.obj, data |-> r.data, popped |-> PopLog(attr, st)]
    ELSE [err |-> NoErr, obj |-> DictSet(st.obj, attr.attr_name, r.val),
          data |-> r.data, popped |-> PopLog(attr, st)]

\* One iteration of load_object's loop: process_key, then setattr.
process_auto_attr(attr, st, ctx) ==
    SetAttr(attr, st, process_key(attr, st.obj, st.data, ctx))

RECURSIVE RunAttrs(_, _, _, _)
RunAttrs(attrs, i, st, ctx) ==
    IF i > Len(attrs) \/ Failed(st) THEN st
    ELSE RunAttrs(attrs, i + 1, process_auto_attr(attrs[i], st, ctx), ctx)

check_all_keys_processed_Skipped(st) == st

\* "Check that all keys in the JSON have been processed."
check_all_keys_processed(st) ==
    IF Failed(st) THEN st
    ELSE IF DOMAIN st.data # {}
    THEN [st EXCEPT !.err = [kind |-> "UnrecognizedField", keys |-> DOMAIN st.data,
                             obj |-> st.obj]]
    ELSE st

\* No Loader class defines finalize: the hook never runs.
load_object(lname, d, cls_info, ctx) ==
    check_all_keys_processed(
        RunAttrs(LoaderNamed(lname).auto_attrs, 1,
                 LoadState(NewObject(LoaderNamed(lname).model_class, cls_info), d), ctx))

----------------------------------------------------------------------------
(* Raw input records *)

\* A key the record does not hold.
Absent == [t |-> "absent"]

\* The dict holding the keys of f that are not Absent.
Strip(f) == [k \in {x \in DOMAIN f : f[x].t # "absent"} |-> f[k]]

\* The sequences over S of length n at most.
SeqsUpTo(S, n) == UNION {[1..k -> S] : k \in 0..n}

----------------------------------------------------------------------------
(* load_objects_to_mapping, one step per object *)

MaxObjs == 3

\* load_headers, load_contests and load_choices pass should_index=True.
ShouldIndex(lname) == lname \in {"HeaderLoader", "ChoiceLoader", "CandidateLoader"}

TitleKey(lname) == IF lname = "VotingGroupLoader" THEN "heading" ELSE "ballot_title"

RegRecords(lname) ==
    {Dict(Strip(("_id" :> i) @@ (TitleKey(lname) :> h))) :
        i \in {Absent, Null, Str(""), Str("a"), Str("b")},
        h \in {Absent, Str("t")}}

InitReg ==
    /\ call = NoCall
    /\ pc = "reg_load"
    /\ loader \in {"VotingGroupLoader", "HeaderLoader"}
    /\ seq \in SeqsUpTo(RegRecords(loader), MaxObjs)
    /\ objects = <<>>
    /\ mapping = <<>>
    /\ ai = 1
    /\ err = NoErr
    /\ returned = Null
    /\ data = EmptyDict /\ data0 = EmptyDict
    /\ context = EmptyDict /\ stagelog = <<>>
    /\ obj = EmptyDict /\ popped = EmptyDict
    /\ edata = EmptyDict /\ election = EmptyDict
    /\ eai = 1 /\ li = 1
    /\ headers_by_id = Null /\ contests_by_id = Null

\* objects = [load_data(data) for data in seq]; index_objects(objects)
RegLoaded(r) ==
    IF Failed(r)
    THEN /\ pc' = "reg_failed"
         /\ err' = r.err
         /\ UNCHANGED objects
    ELSE /\ pc' = "reg_add"
         /\ objects' = IF ShouldIndex(loader) THEN index_objects(r.val) ELSE r.val
         /\ UNCHANGED err

RegLoadObjects ==
    /\ pc = "reg_load"
    /\ RegLoaded(LoadEach(loader, seq, EmptyDict, EmptyDict, <<>>, 1))
    /\ UNCHANGED <<call, data, data0, context, stagelog, returned, ai, obj, popped, loader, seq,
                   mapping, edata, election, eai, li, headers_by_id, contests_by_id>>

RegAdded(r) ==
    IF Failed(r)
    THEN /\ pc' = "reg_failed"
         /\ err' = r.err
         /\ UNCHANGED <<mapping, ai>>
    ELSE /\ mapping' = r.val
         /\ ai' = ai + 1
         /\ UNCHANGED <<pc, err>>

\* One iteration of create_mapping_by_id's loop.
RegAddObject ==
    /\ pc = "reg_add"
    /\ ai <= Len(objects)
    /\ RegAdded(add_object_by_id(mapping, objects[ai]))
    /\ UNCHANGED <<call, data, data0, context, stagelog, returned, obj, popped, loader, seq,
                   objects, edata, election, eai, li, headers_by_id, contests_by_id>>

RegReturn ==
    /\ pc = "reg_add"
    /\ ai > Len(objects)
    /\ pc' = "reg_done"
    /\ returned' = Reg(mapping)
    /\ UNCHANGED <<call, data, data0, context, stagelog, err, ai, obj, popped, loader, seq,
                   objects, mapping, edata, election, eai, li, headers_by_id, contests_by_id>>

NextReg == RegLoadObjects \/ RegAddObject \/ RegReturn

SpecReg == InitReg /\ [][NextReg]_vars

----------------------------------------------------------------------------
(* load_object, one step per auto_attr *)

ObjRecords ==
    {Strip(r) : r \in
        [_id : {Absent, Null, Str("a")},
         description : {Absent, Str("d")},
         is_rcv : {Absent, Str("Y"), Str("maybe")},
         voting_group_ids : {Absent, Null, Str("a"), Str("z")},
         result_stat_type_ids : {Absent, Str("a")},
         bogus : {Absent, Str("x")}]}

SampleRegistry ==
    Reg(<<Entry(Str("a"), ("id" :> Str("a")) @@ ("__class__" :> Str("ResultStatType")))>>)

ObjContexts ==
    {Strip(c) : c \in
        [voting_groups_by_id : {Absent, Null, SampleRegistry},
         result_stat_types_by_id : {Absent, SampleRegistry}]}

InitObj ==
    /\ call = NoCall
    /\ pc = "obj_attrs"
    /\ loader = "ResultStyleLoader"
    /\ data \in ObjRecords
    /\ data0 = data
    /\ context \in ObjContexts
    /\ stagelog = <<>>
    /\ obj = NewObject(LoaderNamed(loader).model_class, EmptyDict)
    /\ popped = EmptyDict
    /\ ai = 1
    /\ err = NoErr
    /\ returned = Null
    /\ seq = <<>> /\ objects = <<>> /\ mapping = <<>>
    /\ edata = EmptyDict /\ election = EmptyDict
    /\ eai = 1 /\ li = 1
    /\ headers_by_id = Null /\ contests_by_id = Null

ObjProcessed(st) ==
    /\ data' = st.data
    /\ popped' = st.popped
    /\ obj' = st.obj
    /\ IF Failed(st)
       THEN /\ pc' = "obj_failed"
            /\ err' = st.err
            /\ UNCHANGED ai
       ELSE /\ ai' = ai + 1
            /\ UNCHANGED <<pc, err>>

\* One iteration of load_object's loop over loader.auto_attrs.
ObjProcessAutoAttr ==
    /\ pc = "obj_attrs"
    /\ ai <= Len(LoaderNamed(loader).auto_attrs)
    /\ ObjProcessed(process_auto_attr(LoaderNamed(loader).auto_attrs[ai],
                                      [err |-> NoErr, obj |-> obj, data |-> data,
                                       popped |-> popped], context))
    /\ UNCHANGED <<call, data0, context, stagelog, returned, loader, seq, objects, mapping,
                   edata, election, eai, li, headers_by_id, contests_by_id>>

ObjChecked(st) ==
    IF Failed(st)
    THEN /\ pc' = "obj_failed"
         /\ err' = st.err
         /\ UNCHANGED returned
    ELSE /\ pc' = "obj_done"
         /\ returned' = [t |-> "object", v |-> obj]
         /\ UNCHANGED err

\* The leftover-key check and the return.
ObjFinish ==
    /\ pc = "obj_attrs"
    /\ ai > Len(LoaderNamed(loader).auto_attrs)
    /\ ObjChecked(check_all_keys_processed([err |-> NoErr, obj |-> obj, data |-> data,
                                            popped |-> popped]))
    /\ UNCHANGED <<call, data, data0, context, stagelog, ai, obj, popped, loader, seq, objects,
                   mapping, edata, election, eai, li, headers_by_id, contests_by_id>>

NextObj == ObjProcessAutoAttr \/ ObjFinish

SpecObj == InitObj /\ [][NextObj]_vars

----------------------------------------------------------------------------
(* Linking ballot items with their headers *)

\* A reference to the Header or Contest with the given index.  While items
\* are linked, world.headers is the header registry (None if the election has
\* none) and world.contests the entries of the contest registry.
ItemRef(cls, pos) == [t |-> "ref", cls |-> cls, index |-> pos - 1]

ItemAt(world, ref) ==
    IF ref.cls = "Header" THEN world.headers.v[ref.index + 1].val
    ELSE world.contests[ref.index + 1].val

PosOfKey(m, key) == CHOOSE i \in 1..Len(m) : m[i].key = key

SetField(m, pos, field, value) ==
    [m EXCEPT ![pos] = Entry(m[pos].key, DictSet(m[pos].val, field, value))]

\* header.ballot_items.append(item)
AppendItem(hs, hpos, ref) ==
    SetField(hs, hpos, "ballot_items", List(Append(hs[hpos].val["ballot_items"].v, ref)))

\* item.parent_header = header
SetParent(world, ref, parent) ==
    IF ref.cls = "Header"
    THEN [headers |-> Reg(SetField(world.headers.v, ref.index + 1, "parent_header", parent)),
          contests |-> world.contests]
    ELSE [headers |-> world.headers,
          contests |-> SetField(world.contests, ref.index + 1, "parent_header", parent)]

add_child_to_header_NoBackReference(world, hpos, ref) ==
    [headers |-> Reg(AppendItem(world.headers.v, hpos, ref)), contests |-> world.contests]

add_child_to_header_Prepend(world, hpos, ref) ==
    SetParent([headers |-> Reg(SetField(world.headers.v, hpos, "ballot_items",
                                        List(<<ref>> \o world.headers.v[hpos].val["ballot_items"].v))),
               contests |-> world.contests],
              ref, ItemRef("Header", hpos))

add_child_to_header(world, hpos, ref) ==
    SetParent([headers |-> Reg(AppendItem(world.headers.v, hpos, ref)),
               contests |-> world.contests],
              ref, ItemRef("Header", hpos))

Linked(world) == [err |-> NoErr, world |-> world]

link_with_header_IgnoreMissing(world, ref) ==
    IF Falsy(ItemAt(world, ref)["_header_id"]) THEN Linked(world)
    ELSE IF world.headers.t # "reg" THEN
        [err |-> [kind |-> "TypeError", what |-> "not subscriptable"], world |-> world]
    ELSE IF ~HasKey(world.headers.v, ItemAt(world, ref)["_header_id"]) THEN Linked(world)
    ELSE Linked(add_child_to_header(
                    world, PosOfKey(world.headers.v, ItemAt(world, ref)["_header_id"]), ref))

link_with_header_OnlyNoneIsRoot(world, ref) ==
    IF IsNone(ItemAt(world, ref)["_header_id"]) THEN Linked(world)
    ELSE IF world.headers.t # "reg" THEN
        [err |-> [kind |-> "TypeError", what |-> "not subscriptable"], world |-> world]
    ELSE IF ~HasKey(world.headers.v, ItemAt(world, ref)["_header_id"]) THEN
        [err |-> [kind |-> "DanglingReference",
                  header_id |-> ItemAt(world, ref)["_header_id"], item |-> ref],
         world |-> world]
    ELSE Linked(add_child_to_header(
                    world, PosOfKey(world.headers.v, ItemAt(world, ref)["_header_id"]), ref))

\* The two-way association between a ballot item and its header, if it has
\* one.  A header registry that is None makes the subscript raise TypeError,
\* which `except KeyError` does not catch.
link_with_header(world, ref) ==
    IF Falsy(ItemAt(world, ref)["_header_id"]) THEN Linked(world)
    ELSE IF world.headers.t # "reg" THEN
        [err |-> [kind |-> "TypeError", what |-> "not subscriptable"], world |-> world]
    ELSE IF ~HasKey(world.headers.v, ItemAt(world, ref)["_header_id"]) THEN
        [err |-> [kind |-> "DanglingReference",
                  header_id |-> ItemAt(world, ref)["_header_id"], item |-> ref],
         world |-> world]
    ELSE Linked(add_child_to_header(
                    world, PosOfKey(world.headers.v, ItemAt(world, ref)["_header_id"]), ref))

----------------------------------------------------------------------------
(* load_context: the root pass *)

MaxRows == 2

MaxItems == 3

Row(id) == Dict([_id |-> Str(id)])

Tables(rows) == {Absent} \cup {List(q) : q \in SeqsUpTo(rows, MaxRows)}

StatRows == {Dict(Strip(r)) : r \in [_id : {Absent, Str(""), Str("a"), Str("b")}]}

GroupRows == {Dict(Strip(r)) : r \in [_id : {Absent, Str(""), Str("a"), Str("b")}]}

StyleRows ==
    {Dict(Strip(r)) : r \in [_id : {Str("a"), Str("b")},
                            voting_group_ids : {Absent, Str("a"), Str("z")},
                            result_stat_type_ids : {Str("a")}]}

ChoiceRows == {Dict(Strip(r)) : r \in [_id : {Absent, Str("a"), Str("b")}]}

\* The ballot items of the tree inputs, with every kind of parent-header id.
HeaderRows ==
    {Dict(Strip(r)) : r \in [_id : {Str("a"), Str("b")},
                            header_id : {Absent, Str(""), Str("a"), Str("b"), Str("z")}]}

TreeContestRows ==
    {Dict(Strip(r)) : r \in [_id : {Str("a"), Str("b")}, _type : {Str("office")},
                            choices : {List(<<>>)},
                            header_id : {Null, Str("b"), Str("z")},
                            result_style : {Str("a")}]}

BaseContest ==
    [_id |-> Str("a"), _type |-> Str("office"), choices |-> List(<<Row("a")>>),
     header_id |-> Str("a"), result_style |-> Str("a"), voting_district |-> Str("a")]

\* BaseContest with one of its keys varied.
ContestRows ==
    {Dict(Strip(c)) :
        c \in {[BaseContest EXCEPT !._id = v] : v \in {Absent}}
            \cup {[BaseContest EXCEPT !._type = v] :
                    v \in {Absent, Str("measure"), Str("ynoffice"), Str("bogus")}}
            \cup {[BaseContest EXCEPT !.choices = v] : v \in Tables(ChoiceRows)}
            \cup {[BaseContest EXCEPT !.result_style = v] : v \in {Absent, Str("z")}}
            \cup {[BaseContest EXCEPT !._type = Str("bogus"), !.result_style = Str("z")]}
            \cup {[BaseContest EXCEPT !.voting_district = v] : v \in {Absent, Str("z")}}}

BaseElection ==
    [ballot_title |-> Str("t"), election_date |-> Str("2016-11-08"),
     headers |-> List(<<Row("a")>>), contests |-> List(<<Dict(BaseContest)>>)]

Min(a, b) == IF a <= b THEN a ELSE b

\* Elections whose headers and contests hold MaxItems ballot items at most,
\* MaxRows of a kind at most.
TreeElections ==
    UNION {
        {Dict(Strip([ballot_title |-> Str("t"), headers |-> h, contests |-> c])) :
            h \in (IF n = 0 THEN {Absent} ELSE {}) \cup {List(q) : q \in [1..n -> HeaderRows]},
            c \in {Absent} \cup {List(q) : q \in SeqsUpTo(TreeContestRows,
                                                          Min(MaxRows, MaxItems - n))}}
        : n \in 0..Min(MaxRows, MaxItems)}

ContestElections ==
    {Dict([BaseElection EXCEPT !.contests = List(<<c>>)]) : c \in ContestRows}

MiscElections ==
    {Dict(Strip([BaseElection EXCEPT !.election_date = d] @@ [bogus |-> b])) :
        d \in {Absent, Str("2016-11-08"), Str("11/08/2016")}, b \in {Absent, Str("x")}}

Elections == {Absent} \cup TreeElections \cup ContestElections \cup MiscElections

BaseInput ==
    [languages |-> Str("en"), translations |-> Str("tr"),
     result_stat_types |-> List(<<Row("a")>>),
     voting_groups |-> List(<<Row("a")>>),
     result_styles |-> List(<<Dict([_id |-> Str("a"), voting_group_ids |-> Str("a"),
                                    result_stat_type_ids |-> Str("a")])>>),
     areas |-> List(<<Row("a")>>),
     election |-> Dict(BaseElection)]

With(key, values) == {Strip((key :> v) @@ BaseInput) : v \in values}

\* The election.json dicts of the model: BaseInput with one of its keys varied.
Inputs ==
    With("languages", {Absent})
        \cup With("bogus", {Str("x")})
        \cup With("result_stat_types", Tables(StatRows))
        \cup With("voting_groups", Tables(GroupRows))
        \cup With("result_styles", Tables(StyleRows))
        \cup With("areas", Tables(GroupRows))
        \cup With("election", Elections)

Init ==
    /\ call = NoCall
    /\ pc = "root_attrs"
    /\ data \in Inputs
    /\ data0 = data
    /\ context = [build_time |-> Str("now")]
    /\ stagelog = <<>>
    /\ ai = 1
    /\ err = NoErr
    /\ returned = Null
    /\ loader = "RootLoader"
    /\ obj = EmptyDict /\ popped = EmptyDict
    /\ seq = <<>> /\ objects = <<>> /\ mapping = <<>>
    /\ edata = EmptyDict /\ election = EmptyDict
    /\ eai = 1 /\ li = 1
    /\ headers_by_id = Null /\ contests_by_id = Null

RootAttrs == RootLoader.auto_attrs

ElectionAttrs == ElectionLoader.auto_attrs

ModelRoot_setattr_Replace(ctx, name, value) == (name :> value)

\* ModelRoot.__setattr__: self.context[name] = value
ModelRoot_setattr(ctx, name, value) == DictSet(ctx, name, value)

\* The context load_election and load_contests are handed: the context keys
\* the election binding declares.
ElectionContext == [k \in RootAttrs[ai].context_keys |-> context[k]]

Fail_NotRaised(e) ==
    /\ pc' = pc
    /\ err' = e

\* An exception leaves load_object: process_auto_attr re-raises it and nothing
\* up to load_context's caller handles it.
Fail(e) ==
    /\ pc' = "failed"
    /\ err' = e

StageStarted == Append(stagelog, [stage |-> RootAttrs[ai].attr_name, published |-> DOMAIN context])

\* process_auto_attr for the root: an exception of process_key ends the load,
\* otherwise the value is set on the ModelRoot.
RootProcessed(r) ==
    /\ data' = r.data
    /\ IF r.err.kind # "none"
       THEN /\ Fail(r.err)
            /\ UNCHANGED <<context, ai>>
       ELSE /\ context' = ModelRoot_setattr(context, RootAttrs[ai].attr_name, r.val)
            /\ ai' = ai + 1
            /\ UNCHANGED <<pc, err>>

\* One iteration of load_object's loop for the RootLoader: a table stage.
RootProcessAutoAttr ==
    /\ pc = "root_attrs"
    /\ ai <= Len(RootAttrs)
    /\ RootAttrs[ai].load_value # "load_election"
    /\ stagelog' = StageStarted
    /\ RootProcessed(process_key(RootAttrs[ai], EmptyDict, data, context))
    /\ UNCHANGED <<call, data0, returned, obj, popped, loader, seq, objects, mapping, edata,
                   election, eai, li, headers_by_id, contests_by_id>>

ElectionStarted(kw) ==
    IF IsNone(DictGet(data, RootAttrs[ai].data_key)) THEN
        /\ context' = ModelRoot_setattr(context, RootAttrs[ai].attr_name, Null)
        /\ ai' = ai + 1
        /\ UNCHANGED <<pc, err, edata, election, eai>>
    ELSE IF Failed(kw) THEN
        /\ Fail(kw.err)
        /\ UNCHANGED <<context, ai, edata, election, eai>>
    ELSE
        /\ pc' = "election_attrs"
        /\ edata' = DictGet(data, RootAttrs[ai].data_key).v
        /\ election' = NewObject(ElectionLoader.model_class, [input_dir |-> Str("input")])
        /\ eai' = 1
        /\ UNCHANGED <<context, ai, err>>

\* The election stage starts: process_key up to the call of load_election,
\* which creates the Election object.
ElectionStart ==
    /\ pc = "root_attrs"
    /\ ai <= Len(RootAttrs)
    /\ RootAttrs[ai].load_value = "load_election"
    /\ stagelog' = StageStarted
    /\ data' = DictDel(data, RootAttrs[ai].data_key)
    /\ ElectionStarted(make_load_value_kwargs(RootAttrs[ai], context))
    /\ UNCHANGED <<call, data0, returned, obj, popped, loader, seq, objects, mapping, li,
                   headers_by_id, contests_by_id>>

ElectionProcessed(st) ==
    /\ edata' = st.data
    /\ IF Failed(st)
       THEN /\ Fail(st.err)
            /\ UNCHANGED <<election, eai>>
       ELSE /\ election' = st.obj
            /\ eai' = eai + 1
            /\ UNCHANGED <<pc, err>>

\* One iteration of load_object's loop for the ElectionLoader, for the
\* bindings other than headers_by_id and contests_by_id.
ElectionProcessAutoAttr ==
    /\ pc = "election_attrs"
    /\ eai <= Len(ElectionAttrs)
    /\ ElectionAttrs[eai].load_value \notin {"load_headers", "load_contests"}
    /\ ElectionProcessed(process_auto_attr(ElectionAttrs[eai], LoadState(election, edata),
                                           ElectionContext))
    /\ UNCHANGED <<call, data, data0, context, stagelog, returned, ai, obj, popped, loader, seq,
                   objects, mapping, li, headers_by_id, contests_by_id>>

\* process_key for a binding whose load_value builds and links a registry, up
\* to the registry r that load_objects_to_mapping returns (or its failure).
ItemsLoaded(attr, kw, r) ==
    IF IsNone(DictGet(edata, attr.data_key)) THEN
        /\ election' = DictSet(election, attr.attr_name, Null)
        /\ eai' = eai + 1
        /\ UNCHANGED <<pc, err, headers_by_id, contests_by_id, li>>
    ELSE IF Failed(kw) THEN
        /\ Fail(kw.err)
        /\ UNCHANGED <<election, eai, headers_by_id, contests_by_id, li>>
    ELSE IF Failed(r) THEN
        /\ Fail(r.err)
        /\ UNCHANGED <<election, eai, headers_by_id, contests_by_id, li>>
    ELSE
        /\ IF attr.load_value = "load_headers"
           THEN /\ pc' = "link_headers"
                /\ headers_by_id' = r.val
                /\ UNCHANGED contests_by_id
           ELSE /\ pc' = "link_contests"
                /\ contests_by_id' = r.val
                /\ UNCHANGED headers_by_id
        /\ li' = 1
        /\ UNCHANGED <<election, eai, err>>

\* load_headers up to its linking loop.
LoadHeaders ==
    /\ pc = "election_attrs"
    /\ eai <= Len(ElectionAttrs)
    /\ ElectionAttrs[eai].load_value = "load_headers"
    /\ edata' = DictDel(edata, ElectionAttrs[eai].data_key)
    /\ ItemsLoaded(ElectionAttrs[eai],
                   make_load_value_kwargs(ElectionAttrs[eai], ElectionContext),
                   load_objects_to_mapping("HeaderLoader",
                                           DictGet(edata, ElectionAttrs[eai].data_key),
                                           TRUE, EmptyDict, EmptyDict))
    /\ UNCHANGED <<call, data, data0, context, stagelog, returned, ai, obj, popped, loader, seq,
                   objects, mapping>>

HeaderLinked(r) ==
    IF r.err.kind # "none"
    THEN /\ Fail(r.err)
         /\ UNCHANGED <<headers_by_id, li>>
    ELSE /\ headers_by_id' = r.world.headers
         /\ li' = li + 1
         /\ UNCHANGED <<pc, err>>

\* One iteration of load_headers' linking loop.
LinkHeader ==
    /\ pc = "link_headers"
    /\ li <= Len(headers_by_id.v)
    /\ HeaderLinked(link_with_header([headers |-> headers_by_id, contests |-> <<>>],
                                     ItemRef("Header", li)))
    /\ UNCHANGED <<call, data, data0, context, stagelog, returned, ai, obj, popped, loader, seq,
                   objects, mapping, edata, election, eai, contests_by_id>>

\* load_headers returns; process_auto_attr sets election.headers_by_id.
HeadersDone ==
    /\ pc = "link_headers"
    /\ li > Len(headers_by_id.v)
    /\ election' = DictSet(election, ElectionAttrs[eai].attr_name, headers_by_id)
    /\ eai' = eai + 1
    /\ pc' = "election_attrs"
    /\ UNCHANGED <<call, data, data0, context, stagelog, err, returned, ai, obj, popped, loader,
                   seq, objects, mapping, edata, li, headers_by_id, contests_by_id>>

\* load_contests up to its linking loop.
LoadContests ==
    /\ pc = "election_attrs"
    /\ eai <= Len(ElectionAttrs)
    /\ ElectionAttrs[eai].load_value = "load_contests"
    /\ edata' = DictDel(edata, ElectionAttrs[eai].data_key)
    /\ ItemsLoaded(ElectionAttrs[eai],
                   make_load_value_kwargs(ElectionAttrs[eai], ElectionContext),
                   load_objects_to_mapping("load_single_contest",
                                           DictGet(edata, ElectionAttrs[eai].data_key),
                                           TRUE, EmptyDict, ElectionContext))
    /\ UNCHANGED <<call, data, data0, context, stagelog, returned, ai, obj, popped, loader, seq,
                   objects, mapping>>

\* election.headers_by_id is the registry load_headers built: a header that
\* gains a child changes in both.
ContestLinked(r) ==
    IF r.err.kind # "none"
    THEN /\ Fail(r.err)
         /\ UNCHANGED <<headers_by_id, contests_by_id, election, li>>
    ELSE /\ contests_by_id' = Reg(r.world.contests)
         /\ headers_by_id' = r.world.headers
         /\ election' = DictSet(election, "headers_by_id", r.world.headers)
         /\ li' = li + 1
         /\ UNCHANGED <<pc, err>>

\* One iteration of load_contests' linking loop.
LinkContest ==
    /\ pc = "link_contests"
    /\ li <= Len(contests_by_id.v)
    /\ ContestLinked(link_with_header([headers |-> election["headers_by_id"],
                                       contests |-> contests_by_id.v],
                                      ItemRef("Contest", li)))
    /\ UNCHANGED <<call, data, data0, context, stagelog, returned, ai, obj, popped, loader, seq,
                   objects, mapping, edata, eai>>

\* load_contests returns; process_auto_attr sets election.contests_by_id.
ContestsDone ==
    /\ pc = "link_contests"
    /\ li > Len(contests_by_id.v)
    /\ election' = DictSet(election, ElectionAttrs[eai].attr_name, contests_by_id)
    /\ eai' = eai + 1
    /\ pc' = "election_attrs"
    /\ UNCHANGED <<call, data, data0, context, stagelog, err, returned, ai, obj, popped, loader,
                   seq, objects, mapping, edata, li, headers_by_id, contests_by_id>>

ElectionChecked(st) ==
    IF Failed(st)
    THEN /\ Fail(st.err)
         /\ UNCHANGED <<context, ai>>
    ELSE /\ context' = ModelRoot_setattr(context, RootAttrs[ai].attr_name,
                                         election)
         /\ ai' = ai + 1
         /\ pc' = "root_attrs"
         /\ UNCHANGED err

\* load_object's leftover check for the election; load_election returns the
\* Election, which the root publishes.
ElectionFinish ==
    /\ pc = "election_attrs"
    /\ eai > Len(ElectionAttrs)
    /\ ElectionChecked(check_all_keys_processed(LoadState(election, edata)))
    /\ UNCHANGED <<call, data, data0, stagelog, returned, obj, popped, loader, seq, objects,
                   mapping, edata, election, eai, li, headers_by_id, contests_by_id>>

RootChecked(st) ==
    IF Failed(st)
    THEN /\ Fail(st.err)
         /\ UNCHANGED returned
    ELSE /\ pc' = "done"
         /\ returned' = Dict(context)
         /\ UNCHANGED err

\* load_object's leftover check for the root; load_context returns the context.
RootFinish ==
    /\ pc = "root_attrs"
    /\ ai > Len(RootAttrs)
    /\ RootChecked(check_all_keys_processed(LoadState(EmptyDict, data)))
    /\ UNCHANGED <<call, data, data0, context, stagelog, ai, obj, popped, loader, seq, objects,
                   mapping, edata, election, eai, li, headers_by_id, contests_by_id>>

Next ==
    \/ RootProcessAutoAttr
    \/ ElectionStart
    \/ ElectionProcessAutoAttr
    \/ LoadHeaders
    \/ LinkHeader
    \/ HeadersDone
    \/ LoadContests
    \/ LinkContest
    \/ ContestsDone
    \/ ElectionFinish
    \/ RootFinish

Spec == Init /\ [][Next]_vars

----------------------------------------------------------------------------
(* The converters, each called on its own *)

ConvValues ==
    {Null, Bool(TRUE), Bool(FALSE), Num(0), Num(1), Num(2), List(<<>>)}
        \cup {Str(s) : s \in {"", "0", "1", "2", "042", "abc", "Y", "y", "n", "N", "maybe",
                               "true", "False", "2016-11-08"}}

Converters ==
    {"parse_as_is", "parse_id", "parse_i18n", "parse_int", "parse_bool", "parse_date"}

InitConv ==
    /\ call \in [fn : Converters, value : ConvValues]
    /\ pc = "conv_call"
    /\ err = NoErr
    /\ returned = Null
    /\ data = EmptyDict /\ data0 = EmptyDict
    /\ context = EmptyDict
    /\ stagelog = <<>>
    /\ ai = 1
    /\ loader = "none"
    /\ obj = EmptyDict /\ popped = EmptyDict
    /\ seq = <<>> /\ objects = <<>> /\ mapping = <<>>
    /\ edata = EmptyDict /\ election = EmptyDict
    /\ eai = 1 /\ li = 1
    /\ headers_by_id = Null /\ contests_by_id = Null

Converted(r) ==
    IF Failed(r)
    THEN /\ pc' = "conv_failed"
         /\ err' = r.err
         /\ UNCHANGED returned
    ELSE /\ pc' = "conv_done"
         /\ returned' = r.val
         /\ UNCHANGED err

\* load_value(loader, value) for a converter: it returns or raises.
Convert ==
    /\ pc = "conv_call"
    /\ Converted(LoadValue(call.fn, EmptyDict, call.value, EmptyDict))
    /\ UNCHANGED <<call, data, data0, context, stagelog, ai, obj, popped, loader, seq,
                   objects, mapping, edata, election, eai, li, headers_by_id,
                   contests_by_id>>

NextConv == Convert

SpecConv == InitConv /\ [][NextConv]_vars

----------------------------------------------------------------------------
(* Claims about the id registry (SpecReg) *)

RegTerminal == pc \in {"reg_done", "reg_failed"}

\* The positions of the loaded objects with an empty or null id.
EmptyIdAt == {i \in 1..Len(objects) : Falsy(objects[i].id)}

\* The positions whose object has the id of an object before it.
DuplicateAt == {i \in 1..Len(objects) : \E j \in 1..(i - 1) : objects[j].id = objects[i].id}

FirstOf(S) == CHOOSE i \in S : \A j \in S : i <= j

\* C2: adding an object whose id the registry already holds raises the
\* duplicate-id error for that object and leaves the registry as it was: the
\* first object stays under the id, the second is not stored.
C2_DuplicateRejected ==
    [][(pc = "reg_add" /\ ai <= Len(objects) /\ HasKey(mapping, objects[ai].id))
         => (/\ pc' = "reg_failed"
             /\ err'.kind = "DuplicateId"
             /\ err'.obj = objects[ai]
             /\ mapping' = mapping
             /\ returned' = Null)]_vars

\* A second object was rejected and the registry still holds the first one,
\* a different object, under the id.
C2_Witness ==
    /\ pc = "reg_failed"
    /\ err.kind = "DuplicateId"
    /\ HasKey(mapping, err.obj.id)
    /\ Lookup(mapping, err.obj.id) # err.obj
    /\ Lookup(mapping, err.obj.id) = objects[FirstOf({i \in 1..Len(objects) :
                                                       objects[i].id = err.obj.id})]

\* C3 as stated: if any loaded object has an empty or null id, building the
\* registry fails with the missing-id error and returns no registry.
C3_Original ==
    (RegTerminal /\ EmptyIdAt # {})
        => (pc = "reg_failed" /\ err.kind = "MissingId" /\ returned = Null)

\* C3 amended: if any loaded object has an empty or null id, building the
\* registry fails and returns no registry; the error is the missing-id error
\* for the first such object, unless an object before it repeats an earlier
\* id, and then it is the duplicate-id error for the first repeat.
C3_MissingIdFails ==
    (RegTerminal /\ EmptyIdAt # {})
        => /\ pc = "reg_failed"
           /\ returned = Null
           /\ IF \E i \in DuplicateAt : i < FirstOf(EmptyIdAt)
              THEN err.kind = "DuplicateId" /\ err.obj = objects[FirstOf(DuplicateAt)]
              ELSE err.kind = "MissingId" /\ err.obj = objects[FirstOf(EmptyIdAt)]

\* The registry was refused for an object whose record had no "_id" key,
\* after another object had been registered.
C3_Witness ==
    /\ pc = "reg_failed"
    /\ err.kind = "MissingId"
    /\ ai > 1
    /\ "_id" \notin DOMAIN seq[ai].v
    /\ returned = Null

----------------------------------------------------------------------------
(* Claims about load_object and its bindings (SpecObj) *)

ObjAttrs == LoaderNamed(loader).auto_attrs

ObjTerminal == pc \in {"obj_done", "obj_failed"}

\* The bindings of the loader whose source key is k.
BindingsOf(k) == {i \in 1..Len(ObjAttrs) : ObjAttrs[i].data_key = k}

\* Key k of the record is the source key of exactly one binding, which removed it.
ConsumedByOne(k) ==
    /\ Cardinality(BindingsOf(k)) = 1
    /\ k \in DOMAIN popped
    /\ \E i \in BindingsOf(k) : ObjAttrs[i].attr_name = popped[k]
    /\ k \notin DOMAIN data

\* C4 as stated: either every key of the record is consumed by exactly one
\* binding, or the load fails with the unrecognized-field error; no object is
\* returned while a key remains.
C4_Original ==
    ObjTerminal =>
        /\ \/ \A k \in DOMAIN data0 : ConsumedByOne(k)
           \/ pc = "obj_failed" /\ err.kind = "UnrecognizedField"
        /\ pc = "obj_done" => DOMAIN data = {}

\* C4 amended: when every binding runs without failing, either every key of
\* the record is consumed by exactly one binding and the object is returned,
\* or the load fails with the unrecognized-field error naming the keys left;
\* when a binding fails, the load ends with that binding's error, before the
\* leftover check.  No object is returned while a key remains.
C4_NoKeyDropped ==
    /\ ObjTerminal =>
        \/ /\ pc = "obj_done"
           /\ returned # Null
           /\ \A k \in DOMAIN data0 : ConsumedByOne(k)
           /\ DOMAIN data = {}
        \/ /\ pc = "obj_failed"
           /\ ai > Len(ObjAttrs)
           /\ err.kind = "UnrecognizedField"
           /\ err.keys = {k \in DOMAIN data0 : BindingsOf(k) = {}}
           /\ err.keys # {}
           /\ returned = Null
        \/ /\ pc = "obj_failed"
           /\ ai <= Len(ObjAttrs)
           /\ err.kind \in {"InvalidValue", "MissingDependency", "KeyError", "TypeError"}
           /\ returned = Null
    /\ returned # Null => DOMAIN data = {}

\* The leftover check refused a record after its bindings had consumed the
\* keys they know.
C4_Witness ==
    /\ pc = "obj_failed"
    /\ err.kind = "UnrecognizedField"
    /\ err.keys = {"bogus"}
    /\ DOMAIN popped = DOMAIN data0 \ {"bogus"}
    /\ Cardinality(DOMAIN popped) >= 3

\* Binding i has been run against the record.
HasRun(i) == i < ai \/ (i = ai /\ pc = "obj_failed")

\* Binding i declares a dependency that the context does not hold.
DepsMissing(i) == ~(ObjAttrs[i].context_keys \subseteq DOMAIN context)

\* The record carries a (non-null) value for binding i's source key, or the
\* binding reads no source key.
CarriesValue(i) ==
    IF ObjAttrs[i].data_key = NoDataKey THEN TRUE
    ELSE ~IsNone(DictGet(data0, ObjAttrs[i].data_key))

\* C5 as stated: a binding with an unpublished dependency aborts the load with
\* the missing-dependency error whenever it is run, whatever the record holds.
C5_Original ==
    \A i \in 1..Len(ObjAttrs) :
        (HasRun(i) /\ DepsMissing(i))
            => (pc = "obj_failed" /\ ai = i /\ err.kind = "MissingDependency")

\* C5 amended: a binding with an unpublished dependency aborts the load with
\* the missing-dependency error when the record carries a value for its source
\* key; when the record carries none, the binding sets its attribute to null
\* without checking its dependencies and the load goes on.
C5_DependencyChecked ==
    \A i \in 1..Len(ObjAttrs) :
        (HasRun(i) /\ DepsMissing(i))
            => IF CarriesValue(i)
               THEN /\ pc = "obj_failed"
                    /\ ai = i
                    /\ err.kind = "MissingDependency"
                    /\ err.missing = ObjAttrs[i].context_keys \ DOMAIN context
                    /\ returned = Null
               ELSE /\ i < ai
                    /\ obj[ObjAttrs[i].attr_name] = Null

\* A binding was stopped by its dependency check.
C5_Witness ==
    /\ pc = "obj_failed"
    /\ err.kind = "MissingDependency"
    /\ DepsMissing(ai)
    /\ CarriesValue(ai)

----------------------------------------------------------------------------
(* Claims about the load pass (Spec) *)

Terminal == pc \in {"done", "failed"}

IsReg(x) == ~IsObject(x) /\ x.t = "reg"

Range(q) == {q[i] : i \in 1..Len(q)}

TableNames ==
    {"result_stat_types_by_id", "voting_groups_by_id", "result_styles_by_id", "areas_by_id"}

\* The headers_by_id and contests_by_id of an Election, and the choices_by_id
\* of each of its contests.
ElectionRegistries(e) ==
    IF ~IsObject(e) THEN {}
    ELSE {e["headers_by_id"], e["contests_by_id"]}
            \cup (IF IsReg(e["contests_by_id"])
                  THEN {c.val["choices_by_id"] : c \in Range(e["contests_by_id"].v)}
                  ELSE {})

\* The id registries of the graph the context holds.
GraphRegistries ==
    {x \in {context[k] : k \in TableNames \cap DOMAIN context}
            \cup ElectionRegistries(DictGet(context, "election")) : IsReg(x)}

WellFormed(m) ==
    \A i \in 1..Len(m) :
        /\ m[i].key = m[i].val["id"]
        /\ ~Falsy(m[i].key)
        /\ \A j \in 1..Len(m) : j # i => m[j].key # m[i].key

\* C1: in the graph a successful load returns, every id registry (the four
\* tables, the election's headers and contests, each contest's choices) maps
\* each key to an entity whose id is that key, holds no empty or null id, and
\* holds no id twice.
C1_RegistriesWellFormed ==
    pc = "done" => \A x \in GraphRegistries : WellFormed(x.v)

\* A successful load whose graph holds a registry of two entities and a
\* contest with a choice.
C1_Witness ==
    /\ pc = "done"
    /\ \E x \in GraphRegistries : Len(x.v) = 2
    /\ IsObject(DictGet(context, "election"))
    /\ IsReg(context["election"]["contests_by_id"])
    /\ \E c \in Range(context["election"]["contests_by_id"].v) :
            IsReg(c.val["choices_by_id"]) /\ Len(c.val["choices_by_id"].v) > 0

StageOrder ==
    << "result_stat_types_by_id", "voting_groups_by_id", "result_styles_by_id",
       "areas_by_id", "election" >>

IsStage(e) == e.stage \in Range(StageOrder)

StagesStarted == SelectSeq(stagelog, IsStage)

\* C6: the root stages start in the order stat types, voting groups, result
\* styles, areas, election, and when a stage starts the name of every stage
\* before it is already published in the context.
C6_StagesInOrder ==
    /\ Len(StagesStarted) <= Len(StageOrder)
    /\ \A i \in 1..Len(StagesStarted) :
            /\ StagesStarted[i].stage = StageOrder[i]
            /\ \A j \in 1..(i - 1) : StageOrder[j] \in StagesStarted[i].published

\* The election stage has started, after the four table stages.
C6_Witness ==
    /\ pc = "election_attrs"
    /\ Len(StagesStarted) = 5
    /\ IsReg(context["areas_by_id"])
    /\ IsReg(context["result_styles_by_id"])

\* C7: a step never removes a name from the context and never binds a
\* published name (build_time included) to another value.
C7_ContextAppendOnly ==
    [][\A k \in DOMAIN context : k \in DOMAIN context' /\ context'[k] = context[k]]_vars

\* The pass has published every name: build_time, languages, translations,
\* the four tables and the election.
C7_Witness ==
    /\ pc = "done"
    /\ Cardinality(DOMAIN context) = 8
    /\ context["build_time"] = Str("now")

\* The ballot items of an election: its headers, then its contests.
ItemsOf(world) ==
    {ItemRef("Header", i) : i \in 1..(IF IsReg(world.headers) THEN Len(world.headers.v) ELSE 0)}
        \cup {ItemRef("Contest", i) : i \in 1..Len(world.contests)}

HeadersOf(world) == IF IsReg(world.headers) THEN world.headers.v ELSE <<>>

\* How many times the header's children list holds the item.
Occurrences(header, ref) ==
    Cardinality({k \in 1..Len(header["ballot_items"].v) : header["ballot_items"].v[k] = ref})

LinkedBothWays(world, ref) ==
    IF Falsy(ItemAt(world, ref)["_header_id"])
    THEN \A j \in 1..Len(HeadersOf(world)) : Occurrences(HeadersOf(world)[j].val, ref) = 0
    ELSE /\ HasKey(HeadersOf(world), ItemAt(world, ref)["_header_id"])
         /\ ItemAt(world, ref)["parent_header"]
                = ItemRef("Header", PosOfKey(HeadersOf(world), ItemAt(world, ref)["_header_id"]))
         /\ \A j \in 1..Len(HeadersOf(world)) :
                Occurrences(HeadersOf(world)[j].val, ref)
                    = IF HeadersOf(world)[j].key = ItemAt(world, ref)["_header_id"]
                      THEN 1 ELSE 0

\* The Header and Contest registries of the election a finished load returned.
LoadedWorld ==
    [headers |-> context["election"]["headers_by_id"],
     contests |-> IF IsReg(context["election"]["contests_by_id"])
                  THEN context["election"]["contests_by_id"].v ELSE <<>>]

\* C8: after a successful load, a Header or Contest that declared a non-empty
\* parent id refers to the Header registered under that id and occurs once in
\* that Header's children list and in no other; one that declared none occurs
\* in no children list.
C8_LinkedBothWays ==
    (pc = "done" /\ IsObject(DictGet(context, "election")))
        => \A ref \in ItemsOf(LoadedWorld) : LinkedBothWays(LoadedWorld, ref)

\* Header a is a root, header b has parent a, a contest has parent b.
C8_Witness ==
    /\ pc = "done"
    /\ IsObject(DictGet(context, "election"))
    /\ IsReg(LoadedWorld.headers)
    /\ Len(LoadedWorld.headers.v) = 2
    /\ Len(LoadedWorld.contests) = 1
    /\ LoadedWorld.headers.v[1].val["ballot_items"] = List(<<ItemRef("Header", 2)>>)
    /\ LoadedWorld.headers.v[2].val["ballot_items"] = List(<<ItemRef("Contest", 1)>>)
    /\ LoadedWorld.headers.v[1].val["parent_header"] = Null
    /\ LoadedWorld.headers.v[2].val["parent_header"] = ItemRef("Header", 1)
    /\ LoadedWorld.contests[1].val["parent_header"] = ItemRef("Header", 2)

\* The linking loop is about to link the item at li.
Linking ==
    /\ pc \in {"link_headers", "link_contests"}
    /\ li <= Len(IF pc = "link_headers" THEN headers_by_id.v ELSE contests_by_id.v)

LinkingRef == ItemRef(IF pc = "link_headers" THEN "Header" ELSE "Contest", li)

LinkingItem ==
    IF pc = "link_headers" THEN headers_by_id.v[li].val ELSE contests_by_id.v[li].val

\* The registry the item's parent id is looked up in.
LinkingRegistry == IF pc = "link_headers" THEN headers_by_id ELSE election["headers_by_id"]

\* The contest records of the input's election.
RawContests ==
    IF "election" \in DOMAIN data0 /\ data0["election"].t = "dict"
       /\ "contests" \in DOMAIN data0["election"].v
       /\ data0["election"].v["contests"].t = "list"
    THEN Range(data0["election"].v["contests"].v)
    ELSE {}

C10_EmptyParentIsRoot ==
    [][(Linking /\ Falsy(LinkingItem["_header_id"]))
        => /\ pc' = pc
           /\ err' = err
           /\ li' = li + 1
           /\ headers_by_id' = headers_by_id
           /\ contests_by_id' = contests_by_id
           /\ election' = election
           /\ IsNone(LinkingItem["parent_header"])]_vars

\* A header whose parent id is the empty string and a contest without parent
\* id have been linked: both are roots.
C10_Witness ==
    /\ pc = "link_contests"
    /\ li = 2
    /\ IsNone(contests_by_id.v[1].val["_header_id"])
    /\ IsNone(contests_by_id.v[1].val["parent_header"])
    /\ IsReg(headers_by_id)
    /\ Len(headers_by_id.v) = 1
    /\ headers_by_id.v[1].val["_header_id"] = Str("")
    /\ headers_by_id.v[1].val["ballot_items"] = List(<<>>)
    /\ IsNone(headers_by_id.v[1].val["parent_header"])

\* The parent reference of a ballot item.
ParentOf(world, ref) == ItemAt(world, ref)["parent_header"]

\* Following parent references from ref reaches an item without parent in n
\* steps at most.
RECURSIVE ReachesRoot(_, _, _)
ReachesRoot(world, ref, n) ==
    IF IsNone(ParentOf(world, ref)) THEN TRUE
    ELSE IF n = 0 THEN FALSE
    ELSE ReachesRoot(world, ParentOf(world, ref), n - 1)

\* C11: in the graph a successful load returns, following parent references
\* from any Header or Contest reaches a root header in finitely many steps
\* (as many as there are headers, at most): no header is its own ancestor.
C11_HeadersFormTree ==
    (pc = "done" /\ IsObject(DictGet(context, "election")))
        => \A ref \in ItemsOf(LoadedWorld) :
                ReachesRoot(LoadedWorld, ref, Len(HeadersOf(LoadedWorld)))

\* The names a finished load has published.
Published ==
    {"build_time", "languages", "translations", "election"} \cup TableNames

\* The table of the input the registry published under the name is built from.
TableKey(name) ==
    CASE name = "result_stat_types_by_id" -> "result_stat_types"
      [] name = "voting_groups_by_id" -> "voting_groups"
      [] name = "result_styles_by_id" -> "result_styles"
      [] name = "areas_by_id" -> "areas"
      [] name = "headers_by_id" -> "headers"
      [] name = "contests_by_id" -> "contests"

\* The registry holds one entity per record of the table, in the table's order.
BuiltFrom(reg, table) ==
    IF IsNone(table) THEN IsNone(reg)
    ELSE /\ IsReg(reg)
         /\ Len(reg.v) = Len(table.v)
         /\ \A i \in 1..Len(table.v) : reg.v[i].key = table.v[i].v["_id"]

WholeGraph ==
    /\ DOMAIN context = Published
    /\ \A name \in TableNames : BuiltFrom(context[name], DictGet(data0, TableKey(name)))
    /\ IF IsNone(DictGet(data0, "election")) THEN IsNone(context["election"])
       ELSE /\ IsObject(context["election"])
            /\ \A name \in {"headers_by_id", "contests_by_id"} :
                    BuiltFrom(context["election"][name],
                              DictGet(data0["election"].v, TableKey(name)))
            /\ \A ref \in ItemsOf(LoadedWorld) : LinkedBothWays(LoadedWorld, ref)

\* C12: once a step has failed the load has stopped for good and returns
\* nothing; what the load returns is the whole graph: every name published,
\* every registry holding one entity per record of its table, in input order,
\* and every ballot item linked.
C12_NoPartialGraph ==
    /\ err # NoErr => (pc = "failed" /\ returned = Null /\ ~ENABLED Next)
    /\ returned # Null => (pc = "done" /\ err = NoErr /\ returned = Dict(context)
                           /\ WholeGraph)

\* The load failed in the middle of the election, after the tables and the
\* headers had been loaded: nothing was returned.
C12_Witness ==
    /\ pc = "failed"
    /\ returned = Null
    /\ IsReg(DictGet(context, "areas_by_id"))
    /\ IsReg(headers_by_id)
    /\ Len(headers_by_id.v) > 0
    /\ "election" \notin DOMAIN context
    /\ ~ENABLED Next

----------------------------------------------------------------------------
(* Claims about the converters (SpecConv) *)

ConvTerminal == pc \in {"conv_done", "conv_failed"}

Called(fn) == call.fn = fn /\ ConvTerminal

IsText(x) == ~IsObject(x) /\ x.t = "str"

\* The numeric texts among the values, with the integer each denotes.
NumericTexts == {<<"0", 0>>, <<"1", 1>>, <<"2", 2>>, <<"042", 42>>}

IsNumericText(x) == IsText(x) /\ \E p \in NumericTexts : p[1] = x.v

\* C14: the integer converter returns null for an empty or null value, the
\* base-10 integer for numeric text ("042" gives 42), and fails with the
\* invalid-value error for every other text, such as "abc".
C14_IntegerConverter ==
    Called("parse_int") =>
        /\ (IsNone(call.value) \/ call.value = Str(""))
                => (pc = "conv_done" /\ returned = Null)
        /\ \A p \in NumericTexts :
                call.value = Str(p[1]) => (pc = "conv_done" /\ returned = Num(p[2]))
        /\ (IsText(call.value) /\ call.value # Str("") /\ ~IsNumericText(call.value))
                => (pc = "conv_failed" /\ err.kind = "InvalidValue")

YesChars == {"Y", "y", "T", "t", "1"}

NoChars == {"N", "n", "F", "f", "0"}

\* What the claim's rule says of every value but the text "2".
BooleanRule ==
    /\ (IsNone(call.value) \/ call.value = Str(""))
            => (pc = "conv_done" /\ returned = Null)
    /\ (IsText(call.value) /\ call.value # Str("") /\ FirstChar(call.value.v) \in YesChars)
            => (pc = "conv_done" /\ returned = Bool(TRUE))
    /\ (IsText(call.value) /\ call.value # Str("") /\ FirstChar(call.value.v) \in NoChars)
            => (pc = "conv_done" /\ returned = Bool(FALSE))
    /\ call.value.t = "int"
            => (pc = "conv_done" /\ returned = Bool(call.value.v # 0))
    /\ call.value = Str("Y") => returned = Bool(TRUE)
    /\ call.value = Str("n") => returned = Bool(FALSE)
    /\ call.value = Str("maybe") => (pc = "conv_failed" /\ err.kind = "InvalidValue")

\* C15 as stated: the rule, every other value failing, and "2" giving true.
C15_Original ==
    Called("parse_bool") =>
        /\ BooleanRule
        /\ call.value = Str("2") => (pc = "conv_done" /\ returned = Bool(TRUE))
        /\ (/\ ~IsNone(call.value)
            /\ call.value.t # "int"
            /\ ~IsText(call.value))
                => (pc = "conv_failed" /\ err.kind = "InvalidValue")

\* C15: the tri-state boolean converter returns null for empty/null, true for
\* text starting with one of Y y T t 1, false for text starting with one of
\* N n F f 0, false for integer zero and true for a nonzero integer, returns a
\* boolean as it is, and fails with the invalid-value error for anything else:
\* "Y" gives true, "n" false, "" null, the integer 2 true; the texts "2" and
\* "maybe" fail.
C15_BooleanConverter ==
    Called("parse_bool") =>
        /\ BooleanRule
        /\ call.value = Num(2) => (pc = "conv_done" /\ returned = Bool(TRUE))
        /\ call.value = Str("2") => (pc = "conv_failed" /\ err.kind = "InvalidValue")
        /\ call.value.t = "bool" => (pc = "conv_done" /\ returned = call.value)
        /\ (/\ IsText(call.value) /\ call.value # Str("")
            /\ FirstChar(call.value.v) \notin YesChars \cup NoChars)
                => (pc = "conv_failed" /\ err.kind = "InvalidValue")
        /\ (/\ ~IsNone(call.value)
            /\ call.value.t \notin {"int", "bool", "str"})
                => (pc = "conv_failed" /\ err.kind = "InvalidValue")

\* The converter refused the text "2".
C15_Witness ==
    /\ Called("parse_bool")
    /\ call.value = Str("2")
    /\ pc = "conv_failed"
    /\ err.raw = Str("2")

----------------------------------------------------------------------------
(* Ranked-choice results: models/rcvresults.py *)

CandidateRound(round_num, total, transfer, continuing, after_eliminated) ==
    [continuing |-> continuing, after_eliminated |-> after_eliminated,
     round_num |-> round_num, transfer |-> transfer, votes |-> total]

\* The least of a set of integers.
Least(S) == CHOOSE x \in S : \A y \in S : x <= y

\* A tuple indexed as Python indexes it, from 0.
At(tuple, index) == tuple[index + 1]

\* ResultsMapping: the stat columns come first, in the order of the stat
\* types, then one column per candidate in declared order.
get_stat_index(results_mapping, stat) == stat.index

get_candidate_index(results_mapping, candidate) ==
    results_mapping.stat_count + candidate.index

get_continuing_index(self) == get_stat_index(self.results_mapping, self.continuing_stat)

get_round_totals(self, round_num) == At(self.rcv_totals, round_num - 1)

get_continuing_total(self, round_num) ==
    At(get_round_totals(self, round_num), get_continuing_index(self))

get_candidate_total(self, candidate, round_num) ==
    At(get_round_totals(self, round_num),
       get_candidate_index(self.results_mapping, candidate))

\* total - prev_total: None is no operand of the subtraction.
Minus(total, prev_total) ==
    IF IsNone(total) \/ IsNone(prev_total)
    THEN Raise([kind |-> "TypeError", what |-> "-"])
    ELSE Ok(Num(total.v - prev_total.v))

RoundOf(round_num, total, transfer, continuing) ==
    IF Failed(transfer) THEN transfer
    ELSE Ok(CandidateRound(round_num, total, transfer.val, continuing, FALSE))

get_candidate_round(self, candidate, round_num) ==
    RoundOf(round_num,
            get_candidate_total(self, candidate, round_num),
            Minus(get_candidate_total(self, candidate, round_num),
                  IF round_num = 1 THEN Num(0)
                  ELSE get_candidate_total(self, candidate, round_num - 1)),
            get_continuing_total(self, round_num))

\* "if total is None: total = 0"
TotalOrZero(total) == IF IsNone(total) THEN Num(0) ELSE total

LoopBreaks_Never(after_eliminated) == FALSE

\* "if after_eliminated: break"
LoopBreaks(after_eliminated) == after_eliminated

\* The loop of get_candidate_rounds from round round_num on.
RECURSIVE RoundsFrom(_, _, _, _, _, _, _)
RoundsFrom(self, index, continuing_index, round_num, prev_total, after_eliminated, rounds) ==
    IF round_num > Len(self.rcv_totals) THEN rounds
    ELSE LET round_totals == self.rcv_totals[round_num]
             total == TotalOrZero(At(round_totals, index))
             eliminated == after_eliminated \/ IsNone(At(round_totals, index))
             cand_round == CandidateRound(round_num, total,
                                          Num(total.v - prev_total.v),
                                          At(round_totals, continuing_index),
                                          eliminated)
         IN  IF LoopBreaks(eliminated) THEN Append(rounds, cand_round)
             ELSE RoundsFrom(self, index, continuing_index, round_num + 1, total,
                             eliminated, Append(rounds, cand_round))

get_candidate_rounds(self, candidate) ==
    RoundsFrom(self, get_candidate_index(self.results_mapping, candidate),
               get_continuing_index(self), 1, Num(0), FALSE, <<>>)

\* rounds[-1] and rounds[-2] of a list.
MaxRoundIn_First(rounds) ==
    IF Len(rounds) = 0 THEN Raise([kind |-> "IndexError", what |-> "rounds[-1]"])
    ELSE IF ~rounds[Len(rounds)].after_eliminated THEN Ok(rounds[Len(rounds)])
    ELSE IF Len(rounds) = 1 THEN Raise([kind |-> "IndexError", what |-> "rounds[-2]"])
    ELSE Ok(rounds[1])

MaxRoundIn(rounds) ==
    IF Len(rounds) = 0 THEN Raise([kind |-> "IndexError", what |-> "rounds[-1]"])
    ELSE IF ~rounds[Len(rounds)].after_eliminated THEN Ok(rounds[Len(rounds)])
    ELSE IF Len(rounds) = 1 THEN Raise([kind |-> "IndexError", what |-> "rounds[-2]"])
    ELSE Ok(rounds[Len(rounds) - 1])

find_max_round(self, candidate) == MaxRoundIn(get_candidate_rounds(self, candidate))

\* The first candidate, in order, whose max round cannot be found: 0 if none.
FirstFailing(self) ==
    IF \E i \in 1..Len(self.candidates) : Failed(find_max_round(self, self.candidates[i]))
    THEN Least({i \in 1..Len(self.candidates) :
                Failed(find_max_round(self, self.candidates[i]))})
    ELSE 0

\* max_rounds[candidate.id]: a later candidate of the same id replaces an
\* earlier one.
MaxRoundsAt(self, id) ==
    LET last == CHOOSE i \in 1..Len(self.candidates) :
                    /\ self.candidates[i].id = id
                    /\ \A j \in (i + 1)..Len(self.candidates) : self.candidates[j].id # id
    IN  find_max_round(self, self.candidates[last]).val

compute_max_rounds(self) ==
    IF FirstFailing(self) # 0
    THEN [err |-> find_max_round(self, self.candidates[FirstFailing(self)]).err, val |-> Null]
    ELSE Ok([id \in {self.candidates[i].id : i \in 1..Len(self.candidates)} |->
                MaxRoundsAt(self, id)])

key_TotalAscending(self, max_rounds, candidate) ==
    <<(-1) * max_rounds[candidate.id].round_num,
      get_candidate_total(self, candidate, max_rounds[candidate.id].round_num).v,
      candidate.id>>

key(self, max_rounds, candidate) ==
    <<(-1) * max_rounds[candidate.id].round_num,
      (-1) * get_candidate_total(self, candidate, max_rounds[candidate.id].round_num).v,
      candidate.id>>

\* Python's order of tuples of integers.
TupleLess(k1, k2) ==
    \/ k1[1] < k2[1]
    \/ k1[1] = k2[1] /\ k1[2] < k2[2]
    \/ k1[1] = k2[1] /\ k1[2] = k2[2] /\ k1[3] < k2[3]

\* sorted(): a stable sort; x goes behind every item that is not greater.
RECURSIVE InsertByKey(_, _, _, _, _)
InsertByKey(self, max_rounds, x, kx, sorted) ==
    IF sorted = <<>> THEN <<x>>
    ELSE IF TupleLess(kx, key(self, max_rounds, Head(sorted))) THEN <<x>> \o sorted
    ELSE <<Head(sorted)>> \o InsertByKey(self, max_rounds, x, kx, Tail(sorted))

RECURSIVE SortedByKey(_, _, _)
SortedByKey(self, max_rounds, n) ==
    IF n = 0 THEN <<>>
    ELSE InsertByKey(self, max_rounds, self.candidates[n],
                     key(self, max_rounds, self.candidates[n]),
                     SortedByKey(self, max_rounds, n - 1))

OrderInfo(self, max_rounds) ==
    IF Failed(max_rounds) THEN max_rounds
    ELSE Ok([candidates |-> SortedByKey(self, max_rounds.val, Len(self.candidates)),
             max_rounds |-> max_rounds.val])

compute_order_info(self) == OrderInfo(self, compute_max_rounds(self))

----------------------------------------------------------------------------
(* The functions of RCVResults, each called on its own (SpecRcv) *)

MaxRounds == 3

\* The stat types of the tests: Registered, then Continuing.
StatTypes == <<[id |-> 20, heading |-> "Registered", index |-> 0],
               [id |-> 21, heading |-> "Continuing", index |-> 1]>>

StatTotals == <<Num(9), Num(5)>>

RcvTotalValues == {Null, Num(1), Num(2)}

Candidate(id, index) == [id |-> id, index |-> index]

\* One candidate, or two in either order of their ids.
CandidateLists ==
    {<<Candidate(100, 0)>>,
     <<Candidate(100, 0), Candidate(101, 1)>>,
     <<Candidate(101, 0), Candidate(100, 1)>>}

\* Every table of rounds rows for n candidates.
RcvTotals(rounds, n) ==
    {[r \in 1..rounds |-> StatTotals \o t[r]] :
        t \in [1..rounds -> [1..n -> RcvTotalValues]]}

RCVResults(rcv_totals, candidates) ==
    [rcv_totals |-> rcv_totals,
     results_mapping |-> [stat_count |-> Len(StatTypes), choice_count |-> Len(candidates)],
     candidates |-> candidates,
     continuing_stat |-> StatTypes[2]]

\* Every call of a function on a tabulation.
RcvCalls(self) ==
         {[fn |-> "compute_order_info", self |-> self, candidate |-> 0, round_num |-> 0]}
    \cup {[fn |-> f, self |-> self, candidate |-> c, round_num |-> 0] :
            f \in {"get_candidate_rounds", "find_max_round"},
            c \in 1..Len(self.candidates)}
    \cup {[fn |-> "get_candidate_round", self |-> self, candidate |-> c, round_num |-> n] :
            c \in 1..Len(self.candidates), n \in 1..Len(self.rcv_totals)}

InitRcv ==
    /\ \E candidates \in CandidateLists, rounds \in 0..MaxRounds :
        \E rcv_totals \in RcvTotals(rounds, Len(candidates)) :
            call \in RcvCalls(RCVResults(rcv_totals, candidates))
    /\ pc = "rcv_call"
    /\ err = NoErr
    /\ returned = Null
    /\ data = EmptyDict /\ data0 = EmptyDict
    /\ context = EmptyDict
    /\ stagelog = <<>>
    /\ ai = 1
    /\ loader = "none"
    /\ obj = EmptyDict /\ popped = EmptyDict
    /\ seq = <<>> /\ objects = <<>> /\ mapping = <<>>
    /\ edata = EmptyDict /\ election = EmptyDict
    /\ eai = 1 /\ li = 1
    /\ headers_by_id = Null /\ contests_by_id = Null

RcvReturned(r) ==
    /\ IF Failed(r)
       THEN /\ pc' = "rcv_failed"
            /\ err' = r.err
            /\ UNCHANGED returned
       ELSE /\ pc' = "rcv_done"
            /\ returned' = r.val
            /\ UNCHANGED err
    /\ UNCHANGED <<call, data, data0, context, stagelog, ai, obj, popped, loader, seq,
                   objects, mapping, edata, election, eai, li, headers_by_id,
                   contests_by_id>>

TheCandidate == call.self.candidates[call.candidate]

GetCandidateRound ==
    /\ pc = "rcv_call" /\ call.fn = "get_candidate_round"
    /\ RcvReturned(get_candidate_round(call.self, TheCandidate, call.round_num))

GetCandidateRounds ==
    /\ pc = "rcv_call" /\ call.fn = "get_candidate_rounds"
    /\ RcvReturned(Ok(get_candidate_rounds(call.self, TheCandidate)))

FindMaxRound ==
    /\ pc = "rcv_call" /\ call.fn = "find_max_round"
    /\ RcvReturned(find_max_round(call.self, TheCandidate))

ComputeOrderInfo ==
    /\ pc = "rcv_call" /\ call.fn = "compute_order_info"
    /\ RcvReturned(compute_order_info(call.self))

NextRcv ==
    \/ GetCandidateRound
    \/ GetCandidateRounds
    \/ FindMaxRound
    \/ ComputeOrderInfo

SpecRcv == InitRcv /\ [][NextRcv]_vars

----------------------------------------------------------------------------
(* Claims about the ranked-choice results (SpecRcv) *)

RcvTerminal == pc \in {"rcv_done", "rcv_failed"}

RcvCalled(fn) == call.fn = fn /\ RcvTerminal

RoundCount == Len(call.self.rcv_totals)

\* The total recorded for the candidate of the call in round n: the column
\* behind the stat columns, at the candidate's place in the declared order.
Recorded(n) == call.self.rcv_totals[n][Len(StatTypes) + call.candidate]

NullRounds == {n \in 1..RoundCount : Recorded(n) = Null}

\* The round the history ends at: the first null round, or the last round.
StopRound == IF NullRounds = {} THEN RoundCount ELSE Least(NullRounds)

\* C16: get_candidate_rounds returns one entry per round from round 1 to the
\* first round in which the candidate's total is null (or to the last round if
\* none is): the null round's entry has votes 0 and after_eliminated true, every
\* earlier entry has after_eliminated false and the recorded total as votes,
\* and no entry follows.
C16_RoundHistory ==
    RcvCalled("get_candidate_rounds") =>
        /\ pc = "rcv_done"
        /\ Len(returned) = StopRound
        /\ \A n \in 1..StopRound :
            /\ returned[n].round_num = n
            /\ IF Recorded(n) = Null
               THEN returned[n].votes = Num(0) /\ returned[n].after_eliminated
               ELSE returned[n].votes = Recorded(n) /\ ~returned[n].after_eliminated

\* A history of two entries that stops at a null round with a round left over.
C16_Witness ==
    /\ RcvCalled("get_candidate_rounds")
    /\ RoundCount = 3
    /\ Recorded(1) # Null /\ Recorded(2) = Null /\ Recorded(3) # Null
    /\ Len(returned) = 2
    /\ returned[2].after_eliminated

\* The total of round n with null counting as 0, and 0 for round 0.
TotalAsNumber(n) == IF n = 0 \/ Recorded(n) = Null THEN 0 ELSE Recorded(n).v

\* C17: get_candidate_round(candidate, N) and the N-th entry of
\* get_candidate_rounds(candidate) report the transfer total(N) - total(N-1),
\* where total(0) = 0 and a null total counts as 0.
C17_TransferIsDifference ==
    /\ RcvCalled("get_candidate_round") =>
        /\ pc = "rcv_done"
        /\ returned.transfer
            = Num(TotalAsNumber(call.round_num) - TotalAsNumber(call.round_num - 1))
    /\ RcvCalled("get_candidate_rounds") =>
        \A n \in 1..Len(returned) :
            returned[n].transfer = Num(TotalAsNumber(n) - TotalAsNumber(n - 1))

\* The last round with a total before any null round.
LastRoundReached == IF NullRounds = {} THEN RoundCount ELSE Least(NullRounds) - 1

Column(c, n) == call.self.rcv_totals[n][Len(StatTypes) + c.index + 1]

\* The highest round candidate c reached: the last one before any null.
Reached(c) ==
    IF \E n \in 1..RoundCount : Column(c, n) = Null
    THEN Least({n \in 1..RoundCount : Column(c, n) = Null}) - 1
    ELSE RoundCount

\* A is ahead of B by round, then by total in that round, then by id.
Ahead(A, B) ==
    \/ Reached(A) > Reached(B)
    \/ /\ Reached(A) = Reached(B)
       /\ Column(A, Reached(A)).v > Column(B, Reached(B)).v
    \/ /\ Reached(A) = Reached(B)
       /\ Column(A, Reached(A)).v = Column(B, Reached(B)).v
       /\ A.id < B.id

IsPermutation(s, t) ==
    /\ Len(s) = Len(t)
    /\ \E p \in [1..Len(s) -> 1..Len(s)] :
        /\ \A i, j \in 1..Len(s) : p[i] = p[j] => i = j
        /\ \A i \in 1..Len(s) : s[i] = t[p[i]]

\* C19: compute_order_info returns a permutation of the candidates in which A
\* precedes B whenever A reached a higher max round, or the same max round
\* with a higher total in that round, or the same round and total with a
\* lower id.
C19_WinnerOrder ==
    (RcvCalled("compute_order_info") /\ pc = "rcv_done") =>
        /\ IsPermutation(returned.candidates, call.self.candidates)
        /\ \A i, j \in 1..Len(returned.candidates) :
                Ahead(returned.candidates[i], returned.candidates[j]) => i < j

\* The candidate declared second got further with fewer votes and comes first.
C19_Witness ==
    /\ RcvCalled("compute_order_info")
    /\ pc = "rcv_done"
    /\ Len(call.self.candidates) = 2
    /\ RoundCount = 2
    /\ Column(call.self.candidates[1], 1) = Num(2)
    /\ Column(call.self.candidates[1], 2) = Null
    /\ Column(call.self.candidates[2], 1) = Num(1)
    /\ Column(call.self.candidates[2], 2) = Num(1)
    /\ returned.candidates[1] = call.self.candidates[2]

----------------------------------------------------------------------------
(* Detailed results of a contest: tsvio.py and load_contest_results (SpecRes) *)

\* TSVStream.convline: a short line is filled up with empty strings.
RECURSIVE convline(_, _)
convline(parts, num_columns) ==
    IF Len(parts) < num_columns THEN convline(Append(parts, ""), num_columns)
    ELSE parts

\* row[2:]
CellsOf(row) == SubSeq(row, 3, Len(row))

\* f'RCV{rcv_round}'
RcvLabel(rcv_round) ==
    CASE rcv_round = 1 -> "RCV1" [] rcv_round = 2 -> "RCV2" [] rcv_round = 3 -> "RCV3"
      [] OTHER -> "RCV?"

StructuralMismatch(what, line) == [kind |-> "StructuralMismatch", what |-> what, line |-> line]

\* int(x) raises ValueError for a cell that is no number.
ValueError(line) == [kind |-> "ValueError", what |-> "int()", line |-> line]

\* "None if x == '' else int(x)" for one cell of an RCV row.
RcvCell(x) == IF x = "" THEN Null ELSE Num(IntOfText(x))

MaxResultRows == 3

\* The rows a results file of the given width is made of: a full row, a row
\* one field short, a row one field long and a row with a cell that is no
\* number for a reporting group; a full row, one with an empty cell and one a
\* field long for round 1; a full row for round 2.
OnesOf(n) == [i \in 1..n |-> "1"]

ResultRows(width) ==
    {<<"RG", "n">> \o OnesOf(width - 2),
     <<"RG", "n">> \o OnesOf(width - 3),
     <<"RG", "n">> \o OnesOf(width - 1),
     <<"RG", "n">> \o OnesOf(width - 3) \o <<"x">>,
     <<"RCV1", "n">> \o OnesOf(width - 2),
     <<"RCV1", "n">> \o OnesOf(width - 3) \o <<"">>,
     <<"RCV1", "n">> \o OnesOf(width - 1),
     <<"RCV2", "n">> \o OnesOf(width - 2)}

\* The files of a header of the given width and up to most rows.
ResultFiles(width, most) ==
    [header : {[i \in 1..width |-> "h"]}, rows : SeqsUpTo(ResultRows(width), most)]

\* A contest with one choice, as far as load_contest_results reads it.
ResultContests ==
    [result_stat_count : {0, 1},
     choices_by_id : {<<"c1">>},
     rcv_rounds : {0, 1, 2},
     reporting_group_count : {1, 2}]

ResultCall(contest, file) ==
    [fn |-> "load_contest_results", contest |-> contest, file |-> file]

InitRes ==
    /\ \E contest \in ResultContests, width \in {3, 4} :
        \E file \in ResultFiles(width, MaxResultRows) :
            call = ResultCall(contest, file)
    /\ pc = "res_header"
    /\ err = NoErr
    /\ returned = Null
    /\ data = EmptyDict /\ data0 = EmptyDict
    /\ context = EmptyDict
    /\ stagelog = <<>>
    /\ ai = 1
    /\ loader = "none"
    /\ obj = EmptyDict /\ popped = EmptyDict
    /\ seq = <<>> /\ objects = <<>> /\ mapping = <<>>
    /\ edata = EmptyDict /\ election = EmptyDict
    /\ eai = 1 /\ li = 1
    /\ headers_by_id = Null /\ contests_by_id = Null

\* tsv_stream.num_columns once the header is read.
num_columns == Len(call.file.header)

\* The row the stream yields next.
NextRow == convline(call.file.rows[li], num_columns)

ResUnchanged ==
    UNCHANGED <<call, data, data0, context, stagelog, returned, ai, popped, loader,
                objects, mapping, edata, election, eai, headers_by_id, contests_by_id>>

ResFail(e) ==
    /\ pc' = "res_failed"
    /\ err' = e
    /\ UNCHANGED <<obj, seq, li>>

\* The header is read and its column count checked.
ResReadHeader ==
    /\ pc = "res_header"
    /\ IF num_columns # 2 + call.contest.result_stat_count + Len(call.contest.choices_by_id)
       THEN /\ pc' = "res_failed"
            /\ err' = StructuralMismatch("column heading", 1)
            /\ obj' = [choice_count |-> Len(call.contest.choices_by_id),
                       results |-> <<>>, rcv_totals |-> <<>>]
            /\ UNCHANGED <<seq, li>>
       ELSE /\ pc' = "res_rcv"
            /\ obj' = [choice_count |-> Len(call.contest.choices_by_id),
                       results |-> <<>>, rcv_totals |-> <<>>]
            /\ seq' = <<>>
            /\ li' = 1
            /\ UNCHANGED err
    /\ ResUnchanged

\* islice(iter_rows, rounds) has a row left to give.
MoreRcvRows == Len(seq) < call.contest.rcv_rounds /\ li <= Len(call.file.rows)

\* read_rcv_totals: one row, of round rounds - i.
ResReadRcvRow ==
    /\ pc = "res_rcv"
    /\ MoreRcvRows
    /\ IF NextRow[1] # RcvLabel(call.contest.rcv_rounds - Len(seq))
       THEN ResFail(StructuralMismatch("RCV row start", li + 1))
       ELSE IF \E i \in 1..Len(CellsOf(NextRow)) :
                    CellsOf(NextRow)[i] # "" /\ IntOfText(CellsOf(NextRow)[i]) < 0
       THEN ResFail(ValueError(li + 1))
       ELSE /\ seq' = Append(seq, [i \in 1..Len(CellsOf(NextRow)) |->
                                        RcvCell(CellsOf(NextRow)[i])])
            /\ li' = li + 1
            /\ UNCHANGED <<pc, err, obj>>
    /\ ResUnchanged

Reversed(s) == [i \in 1..Len(s) |-> s[Len(s) + 1 - i]]

\* contest.rcv_totals.extend(reversed(rcv_totals))
ResRcvDone ==
    /\ pc = "res_rcv"
    /\ ~MoreRcvRows
    /\ pc' = "res_rows"
    /\ obj' = [obj EXCEPT !.rcv_totals = obj.rcv_totals \o Reversed(seq)]
    /\ UNCHANGED <<err, seq, li>>
    /\ ResUnchanged

\* One row of a reporting group.
ResReadRow ==
    /\ pc = "res_rows"
    /\ li <= Len(call.file.rows)
    /\ IF Len(NextRow) # num_columns
       THEN ResFail(StructuralMismatch("columns", li + 1))
       ELSE IF \E i \in 1..Len(CellsOf(NextRow)) : IntOfText(CellsOf(NextRow)[i]) < 0
       THEN ResFail(ValueError(li + 1))
       ELSE /\ obj' = [obj EXCEPT !.results =
                        Append(obj.results, [i \in 1..Len(CellsOf(NextRow)) |->
                                                Num(IntOfText(CellsOf(NextRow)[i]))])]
            /\ li' = li + 1
            /\ UNCHANGED <<pc, err, seq>>
    /\ ResUnchanged

check_reporting_groups_Skipped(results, reporting_group_count) == NoErr

\* "if len(contest.results) != contest.reporting_group_count: raise"
check_reporting_groups(results, reporting_group_count) ==
    IF Len(results) # reporting_group_count
    THEN StructuralMismatch("reporting groups", Len(call.file.rows) + 1)
    ELSE NoErr

ResGroupsChecked(e) ==
    IF e # NoErr THEN ResFail(e)
    ELSE /\ pc' = "res_done"
         /\ UNCHANGED <<err, obj, seq, li>>

\* The file is at its end.
ResCheckGroups ==
    /\ pc = "res_rows"
    /\ li > Len(call.file.rows)
    /\ ResGroupsChecked(check_reporting_groups(obj.results,
                                               call.contest.reporting_group_count))
    /\ ResUnchanged

NextRes ==
    \/ ResReadHeader
    \/ ResReadRcvRow
    \/ ResRcvDone
    \/ ResReadRow
    \/ ResCheckGroups

SpecRes == InitRes /\ [][NextRes]_vars

----------------------------------------------------------------------------
(* Claims about the detailed results (SpecRes) *)

ResTerminal == pc \in {"res_done", "res_failed"}

ExpectedColumns == 2 + call.contest.result_stat_count + Len(call.contest.choices_by_id)

\* The rows read as RCV rounds: the first rcv_rounds rows, or all there are.
RcvRowCount ==
    IF Len(call.file.rows) < call.contest.rcv_rounds THEN Len(call.file.rows)
    ELSE call.contest.rcv_rounds

\* The rows behind the RCV rows.
DataRowCount == Len(call.file.rows) - RcvRowCount

IsNumber(x) == x \in {"0", "1", "2", "042"}

\* Row i of the file can be read: an RCV row carries the label of its round
\* and numbers or empty cells; a data row has the width of the header and
\* numbers only.
Readable(i) ==
    IF i <= RcvRowCount
    THEN /\ call.file.rows[i][1] = RcvLabel(call.contest.rcv_rounds - (i - 1))
         /\ \A k \in 3..Len(call.file.rows[i]) :
                call.file.rows[i][k] = "" \/ IsNumber(call.file.rows[i][k])
    ELSE /\ Len(call.file.rows[i]) = num_columns
         /\ \A k \in 3..Len(call.file.rows[i]) : IsNumber(call.file.rows[i][k])

Unreadable == {i \in 1..Len(call.file.rows) : ~Readable(i)}

\* C20 as stated: either mismatch ends in the structural-mismatch error.
C20_Original ==
    ResTerminal =>
        /\ (num_columns # ExpectedColumns \/ DataRowCount # call.contest.reporting_group_count)
                => (pc = "res_failed" /\ err.kind = "StructuralMismatch")
        /\ pc = "res_done"
                => (/\ num_columns = ExpectedColumns
                    /\ DataRowCount = call.contest.reporting_group_count)

\* C20: load_contest_results fails with a structural-mismatch error at the
\* header whenever the header's column count differs from 2 + stat count +
\* choice count; with a right header, the first row that cannot be read (an
\* RCV row without the label of its round, a row longer than the header, a
\* cell that is no number) ends the load with its own error, a ValueError for
\* the cell; with every row readable it fails with a structural-mismatch
\* error whenever the number of non-RCV rows differs from the reporting-group
\* count; when it returns normally both equalities hold.
C20_StructuralMismatch ==
    ResTerminal =>
        /\ num_columns # ExpectedColumns
                => (pc = "res_failed" /\ err = StructuralMismatch("column heading", 1))
        /\ (num_columns = ExpectedColumns /\ Unreadable # {})
                => (/\ pc = "res_failed"
                    /\ err.line = Least(Unreadable) + 1
                    /\ err.what \in {"RCV row start", "columns", "int()"}
                    /\ err.what = "int()" <=> err.kind = "ValueError")
        /\ (/\ num_columns = ExpectedColumns
            /\ Unreadable = {}
            /\ DataRowCount # call.contest.reporting_group_count)
                => (/\ pc = "res_failed"
                    /\ err.kind = "StructuralMismatch"
                    /\ err.what = "reporting groups")
        /\ pc = "res_done"
                => (/\ num_columns = ExpectedColumns
                    /\ DataRowCount = call.contest.reporting_group_count
                    /\ Len(obj.results) = DataRowCount
                    /\ Len(obj.rcv_totals) = RcvRowCount)

\* One round and one reporting group were read where two groups are declared.
C20_Witness ==
    /\ pc = "res_failed"
    /\ err.kind = "StructuralMismatch" /\ err.what = "reporting groups"
    /\ call.contest.rcv_rounds = 1
    /\ call.contest.reporting_group_count = 2
    /\ Len(obj.rcv_totals) = 1
    /\ Len(obj.results) = 1

----------------------------------------------------------------------------
(* Delimited text files: tsvio.py (SpecTsv) *)

\* A line is a sequence of characters; "[tab]" stands for the character a
\* tab inside a field is written as, and so on. "" stands for no delimiter.
NoSep == ""

\* line.rstrip(): white space at the end of the line goes.
RECURSIVE rstrip(_)
rstrip(line) ==
    IF line # <<>> /\ line[Len(line)] \in {"\t", "\n", " "}
    THEN rstrip(SubSeq(line, 1, Len(line) - 1))
    ELSE line

\* f.translate(mapdata) for one character of a field.
unmap(c, sep) ==
    CASE sep = "\t" /\ c = "[nl]" -> "\n"
      [] sep = "\t" /\ c = "[tab]" -> "\t"
      [] sep = "|" /\ c = "[nl]" -> "\n"
      [] sep = "|" /\ c = "[pipe]" -> "|"
      [] sep = "," /\ c = "[nl]" -> "\n"
      [] sep = "," /\ c = "[comma]" -> ","
      [] OTHER -> c

\* line.split(sep): the fields between the delimiters, from character i on.
RECURSIVE SplitFrom(_, _, _, _, _)
SplitFrom(line, sep, i, field, fields) ==
    IF i > Len(line) THEN Append(fields, field)
    ELSE IF line[i] = sep THEN SplitFrom(line, sep, i + 1, <<>>, Append(fields, field))
    ELSE SplitFrom(line, sep, i + 1, Append(field, line[i]), fields)

Translated(parts, sep) ==
    [k \in 1..Len(parts) |-> [j \in 1..Len(parts[k]) |-> unmap(parts[k][j], sep)]]

split_line(line, sep) == Translated(SplitFrom(rstrip(line), sep, 1, <<>>, <<>>), sep)

\* TSVStream.__init__: no delimiter given means tab.
TSVStream(sep) ==
    [header |-> <<>>, num_columns |-> 0, line_num |-> 0, read_header |-> TRUE,
     sep |-> IF sep = NoSep THEN "\t" ELSE sep]

\* TSVReader.__enter__: "return TSVStream(stream)", whatever self.sep is.
TSVReader_enter(self) == TSVStream(NoSep)

\* "for c in '\t|,': if c in line: self.sep = c; break"
FirstDelimiter(line) ==
    IF \E i \in 1..Len(line) : line[i] = "\t" THEN "\t"
    ELSE IF \E i \in 1..Len(line) : line[i] = "|" THEN "|"
    ELSE IF \E i \in 1..Len(line) : line[i] = "," THEN ","
    ELSE NoSep

\* The delimiter after the header line is looked at.
HeaderSep(stream, line) == IF stream.sep = NoSep THEN FirstDelimiter(line) ELSE stream.sep

MaxLineLen == 3

TsvChars == {"a", "\t", "|", ",", "[tab]"}

\* The lines behind the header: none or one of these.
TsvRows ==
    {<<"a", "|", "a">>, <<"a", "\t", "a">>, <<"a", ",", "a", "|", "a">>, <<"a", "[tab]", "\t">>}

InitTsv ==
    /\ \E sep \in {NoSep, "|"}, header \in SeqsUpTo(TsvChars, MaxLineLen) :
        \E rows \in SeqsUpTo(TsvRows, 1) :
            call = [fn |-> "TSVReader", sep |-> sep, read_header |-> TRUE,
                    header |-> header, rows |-> rows]
    /\ pc = "tsv_enter"
    /\ err = NoErr
    /\ returned = Null
    /\ data = EmptyDict /\ data0 = EmptyDict
    /\ context = EmptyDict
    /\ stagelog = <<>>
    /\ ai = 1
    /\ loader = "none"
    /\ obj = EmptyDict /\ popped = EmptyDict
    /\ seq = <<>> /\ objects = <<>> /\ mapping = <<>>
    /\ edata = EmptyDict /\ election = EmptyDict
    /\ eai = 1 /\ li = 1
    /\ headers_by_id = Null /\ contests_by_id = Null

TsvUnchanged ==
    UNCHANGED <<call, data, data0, context, stagelog, returned, ai, popped, loader,
                objects, mapping, edata, election, eai, headers_by_id, contests_by_id>>

\* "with TSVReader(path) as tsv_stream"
TsvEnter ==
    /\ pc = "tsv_enter"
    /\ pc' = "tsv_header"
    /\ obj' = TSVReader_enter(call)
    /\ UNCHANGED <<err, seq, li>>
    /\ TsvUnchanged

\* TSVStream.__iter__ up to "yield self.header".
TsvReadHeader ==
    /\ pc = "tsv_header"
    /\ IF HeaderSep(obj, call.header) = NoSep
       THEN /\ pc' = "tsv_failed"
            /\ err' = [kind |-> "NoDelimiter"]
            /\ obj' = [obj EXCEPT !.line_num = 1]
       ELSE /\ pc' = "tsv_rows"
            /\ obj' = [obj EXCEPT !.line_num = 1,
                                  !.sep = HeaderSep(obj, call.header),
                                  !.header = split_line(call.header,
                                                        HeaderSep(obj, call.header)),
                                  !.num_columns = Len(split_line(call.header,
                                                        HeaderSep(obj, call.header)))]
            /\ UNCHANGED err
    /\ UNCHANGED <<seq, li>>
    /\ TsvUnchanged

\* "for line in stream: yield self.convline(line)"
TsvReadLine ==
    /\ pc = "tsv_rows"
    /\ li <= Len(call.rows)
    /\ seq' = Append(seq, convline(split_line(call.rows[li], obj.sep), obj.num_columns))
    /\ li' = li + 1
    /\ obj' = [obj EXCEPT !.line_num = obj.line_num + 1]
    /\ UNCHANGED <<pc, err>>
    /\ TsvUnchanged

\* The stream is at its end: TSVReader.__exit__.
TsvExit ==
    /\ pc = "tsv_rows"
    /\ li > Len(call.rows)
    /\ pc' = "tsv_done"
    /\ UNCHANGED <<err, obj, seq, li>>
    /\ TsvUnchanged

NextTsv ==
    \/ TsvEnter
    \/ TsvReadHeader
    \/ TsvReadLine
    \/ TsvExit

SpecTsv == InitTsv /\ [][NextTsv]_vars

----------------------------------------------------------------------------
(* Claims about delimited text files (SpecTsv) *)

\* C21: a file read through TSVReader without an explicit delimiter is split,
\* header and every row, on the delimiter detected from the header line: the
\* first of tab, pipe, comma that occurs in it.
C21_DelimiterDetected ==
    (/\ pc = "tsv_done"
     /\ call.sep = NoSep
     /\ FirstDelimiter(call.header) # NoSep) =>
        /\ obj.sep = FirstDelimiter(call.header)
        /\ obj.header = split_line(call.header, FirstDelimiter(call.header))
        /\ \A i \in 1..Len(call.rows) :
                seq[i] = convline(split_line(call.rows[i], FirstDelimiter(call.header)),
                                  Len(obj.header))

----------------------------------------------------------------------------
(* The contest status file: _set_attributes, load_contest_status (SpecStatus) *)

\* A timestamp "YYYY-MM-DD HH:MM:SS" becomes a datetime; other text is
\* refused.
parse_date_time(dt_string) ==
    IF ~IsObject(dt_string) /\ dt_string.t = "str" /\ dt_string.v = "2016-11-08 20:00:00"
    THEN Ok([t |-> "datetime", v |-> <<2016, 11, 8, 20, 0, 0>>])
    ELSE Raise([kind |-> "InvalidValue", conv |-> "parse_date_time", raw |-> dt_string])

ConverterOf_KeepAll(attr_name) ==
    CASE attr_name = "reporting_time" -> "parse_date_time"
      [] attr_name \in {"total_precincts", "precincts_reporting", "rcv_rounds"} -> "parse_int"
      [] OTHER -> "parse_as_is"

\* process_attrs of load_contest_status; "skip" for "attr_name not in
\* process_attrs".
ConverterOf(attr_name) ==
    CASE attr_name = "reporting_time" -> "parse_date_time"
      [] attr_name \in {"total_precincts", "precincts_reporting", "rcv_rounds"} -> "parse_int"
      [] OTHER -> "skip"

\* process_attrs[attr_name](obj, raw_value)
StatusConvert(fn, raw_value) ==
    CASE fn = "parse_date_time" -> parse_date_time(raw_value)
      [] fn = "parse_int" -> parse_int(raw_value)
      [] OTHER -> parse_as_is(raw_value)

\* A record of the file: its items in the order of the file.
ItemKeys(items) == {items[i][1] : i \in 1..Len(items)}

ItemValue(items, k) == items[CHOOSE i \in 1..Len(items) : items[i][1] = k][2]

\* data.pop(id_key): the items that are left.
RECURSIVE WithoutKey(_, _)
WithoutKey(items, k) ==
    IF items = <<>> THEN <<>>
    ELSE IF Head(items)[1] = k THEN WithoutKey(Tail(items), k)
    ELSE <<Head(items)>> \o WithoutKey(Tail(items), k)

\* setattr(obj, attr_name, value) on the object registered under object_id.
SetOnObject(m, object_id, attr_name, value) ==
    [i \in 1..Len(m) |->
        IF m[i].key = object_id
        THEN Entry(m[i].key, DictSet(m[i].val, attr_name, value))
        ELSE m[i]]

MaxStatusRecords == 2

StatusContest(id) ==
    [id |-> Str(id), name |-> Str("n"), total_precincts |-> Num(9), rcv_rounds |-> Null]

\* The contests of the election: a and b.
StatusContests == <<Entry(Str("a"), StatusContest("a")), Entry(Str("b"), StatusContest("b"))>>

StatusIds == {<<>>} \cup {<<<<"_id", Str(id)>>>> : id \in {"a", "b", "z"}}

StatusItems ==
    {<<>>,
     <<<<"total_precincts", Str("2")>>>>,
     <<<<"reporting_time", Str("2016-11-08 20:00:00")>>>>,
     <<<<"reporting_time", Str("soon")>>>>,
     <<<<"name", Str("m")>>, <<"rcv_rounds", Str("1")>>>>,
     <<<<"precincts_reporting", Str("042")>>, <<"reporting_time", Str("soon")>>>>,
     <<<<"note", Str("x")>>>>}

StatusRecords == {id \o items : id \in StatusIds, items \in StatusItems}

InitStatus ==
    /\ \E contests_data \in SeqsUpTo(StatusRecords, MaxStatusRecords) :
        call = [fn |-> "load_contest_status", contests_data |-> contests_data,
                contests_by_id |-> StatusContests]
    /\ contests_by_id = StatusContests
    /\ pc = "st_record"
    /\ err = NoErr
    /\ returned = Null
    /\ data = EmptyDict /\ data0 = EmptyDict
    /\ context = EmptyDict
    /\ stagelog = <<>>
    /\ ai = 1
    /\ loader = "none"
    /\ obj = EmptyDict /\ popped = EmptyDict
    /\ seq = <<>> /\ objects = <<>> /\ mapping = <<>>
    /\ edata = EmptyDict /\ election = EmptyDict
    /\ eai = 1 /\ li = 1
    /\ headers_by_id = Null

StatusUnchanged ==
    UNCHANGED <<call, data, data0, context, stagelog, returned, popped, loader, seq,
                objects, mapping, edata, election, eai, headers_by_id>>

StatusFail(e) ==
    /\ pc' = "st_failed"
    /\ err' = e
    /\ UNCHANGED <<obj, ai, li, contests_by_id>>

\* The id is popped and the object looked up.
StatusLocate ==
    /\ pc = "st_record"
    /\ li <= Len(call.contests_data)
    /\ IF "_id" \notin ItemKeys(call.contests_data[li])
       THEN StatusFail([kind |-> "MissingIdKey", record |-> li])
       ELSE IF ~HasKey(contests_by_id, ItemValue(call.contests_data[li], "_id"))
       THEN StatusFail([kind |-> "UnknownObject", record |-> li])
       ELSE /\ pc' = "st_attrs"
            /\ obj' = [object_id |-> ItemValue(call.contests_data[li], "_id"),
                       items |-> WithoutKey(call.contests_data[li], "_id")]
            /\ ai' = 1
            /\ UNCHANGED <<err, li, contests_by_id>>
    /\ StatusUnchanged

StatusSet(attr_name, r) ==
    IF Failed(r) THEN StatusFail(r.err)
    ELSE /\ contests_by_id' = SetOnObject(contests_by_id, obj.object_id, attr_name, r.val)
         /\ ai' = ai + 1
         /\ UNCHANGED <<pc, err, obj, li>>

\* One key and value of the record.
StatusSetAttr ==
    /\ pc = "st_attrs"
    /\ ai <= Len(obj.items)
    /\ IF ConverterOf(obj.items[ai][1]) = "skip"
       THEN /\ ai' = ai + 1
            /\ UNCHANGED <<pc, err, obj, li, contests_by_id>>
       ELSE StatusSet(obj.items[ai][1],
                      StatusConvert(ConverterOf(obj.items[ai][1]), obj.items[ai][2]))
    /\ StatusUnchanged

StatusNextRecord ==
    /\ pc = "st_attrs"
    /\ ai > Len(obj.items)
    /\ pc' = "st_record"
    /\ li' = li + 1
    /\ UNCHANGED <<err, obj, ai, contests_by_id>>
    /\ StatusUnchanged

StatusReturn ==
    /\ pc = "st_record"
    /\ li > Len(call.contests_data)
    /\ pc' = "st_done"
    /\ UNCHANGED <<err, obj, ai, li, contests_by_id>>
    /\ StatusUnchanged

NextStatus ==
    \/ StatusLocate
    \/ StatusSetAttr
    \/ StatusNextRecord
    \/ StatusReturn

SpecStatus == InitStatus /\ [][NextStatus]_vars

----------------------------------------------------------------------------
(* Claims about the contest status file (SpecStatus) *)

StatusAttrs == {"reporting_time", "total_precincts", "precincts_reporting", "rcv_rounds"}

\* The records that name the contest id.
RecordsOf(id) ==
    {r \in 1..Len(call.contests_data) :
        /\ "_id" \in ItemKeys(call.contests_data[r])
        /\ ItemValue(call.contests_data[r], "_id") = id}

\* The records of contest id that carry attribute a.
Carrying(id, a) == {r \in RecordsOf(id) : a \in ItemKeys(call.contests_data[r])}

Greatest(S) == CHOOSE x \in S : \A y \in S : y <= x

\* The value the file gives attribute a of contest id: the last one.
RawStatus(id, a) == ItemValue(call.contests_data[Greatest(Carrying(id, a))], a)

Converted22(a, raw) ==
    IF a = "reporting_time" THEN parse_date_time(raw).val ELSE parse_int(raw).val

\* Some record has no _id or names no contest.
Unlocatable ==
    \E r \in 1..Len(call.contests_data) :
        \/ "_id" \notin ItemKeys(call.contests_data[r])
        \/ ItemValue(call.contests_data[r], "_id") \notin Keys(call.contests_by_id)

\* C22: the status patch finds each record's contest by the record's _id in
\* the Contest registry and sets on it exactly the converted values of the
\* record's attributes that have a converter; a record without _id or with an
\* id not in the registry is fatal; contests no record names, and attributes
\* without a converter, are left unchanged.
C22_StatusPatch ==
    /\ Len(contests_by_id) = Len(call.contests_by_id)
    /\ \A i \in 1..Len(contests_by_id) :
        /\ contests_by_id[i].key = call.contests_by_id[i].key
        /\ DOMAIN contests_by_id[i].val \subseteq
                DOMAIN call.contests_by_id[i].val \cup StatusAttrs
        /\ \A a \in DOMAIN call.contests_by_id[i].val \ StatusAttrs :
                contests_by_id[i].val[a] = call.contests_by_id[i].val[a]
        /\ RecordsOf(contests_by_id[i].key) = {}
                => contests_by_id[i] = call.contests_by_id[i]
    /\ Unlocatable => pc # "st_done"
    /\ pc = "st_done" =>
        \A i \in 1..Len(contests_by_id) : \A a \in StatusAttrs :
            IF Carrying(contests_by_id[i].key, a) # {}
            THEN /\ a \in DOMAIN contests_by_id[i].val
                 /\ contests_by_id[i].val[a] = Converted22(a, RawStatus(contests_by_id[i].key, a))
            ELSE /\ a \in DOMAIN contests_by_id[i].val <=> a \in DOMAIN call.contests_by_id[i].val
                 /\ a \in DOMAIN contests_by_id[i].val
                        => contests_by_id[i].val[a] = call.contests_by_id[i].val[a]

\* Contest a got its precinct count and its round count; its name, which a
\* record also carries, and contest b are as before.
C22_Witness ==
    /\ pc = "st_done"
    /\ Len(call.contests_data) = 2
    /\ Lookup(contests_by_id, Str("a")).total_precincts = Num(2)
    /\ Lookup(contests_by_id, Str("a")).rcv_rounds = Num(1)
    /\ Lookup(contests_by_id, Str("a")).name = Str("n")
    /\ Lookup(contests_by_id, Str("b")) = StatusContest("b")

----------------------------------------------------------------------------
(* Further claims about the load pass (Spec) *)

\* The records of a list of the input, none if the input has no such list.
RecordsIn(d, k) ==
    IF k \in DOMAIN d /\ ~IsObject(d[k]) /\ d[k].t = "list" THEN d[k].v ELSE <<>>

RawElection == IF ~IsNone(DictGet(data0, "election")) THEN data0["election"].v ELSE EmptyDict

\* Entity i of the registry was built from record i and carries index i - 1.
IndexedAs(reg, records) ==
    /\ Len(reg.v) = Len(records)
    /\ \A i \in 1..Len(reg.v) :
        /\ reg.v[i].key = records[i].v["_id"]
        /\ reg.v[i].val["index"] = Num(i - 1)

\* C23: after a successful load every header, every contest and every choice
\* of a contest carries as index its 0-based position in the input sequence,
\* which is its position in the registry's order: a registry of n
\* entities has the indexes 0..n-1, each once.
C23_IndexIsPosition ==
    (pc = "done" /\ IsObject(DictGet(context, "election"))) =>
        /\ IsReg(context["election"]["headers_by_id"])
                => IndexedAs(context["election"]["headers_by_id"],
                             RecordsIn(RawElection, "headers"))
        /\ IsReg(context["election"]["contests_by_id"])
                => /\ IndexedAs(context["election"]["contests_by_id"],
                                RecordsIn(RawElection, "contests"))
                   /\ \A j \in 1..Len(context["election"]["contests_by_id"].v) :
                        IndexedAs(context["election"]["contests_by_id"].v[j].val["choices_by_id"],
                                  RecordsIn(RecordsIn(RawElection, "contests")[j].v, "choices"))

\* A contest with two choices was loaded: the second choice has index 1.
C23_Witness ==
    /\ pc = "done"
    /\ IsObject(DictGet(context, "election"))
    /\ IsReg(context["election"]["contests_by_id"])
    /\ \E c \in Range(context["election"]["contests_by_id"].v) :
            /\ Len(c.val["choices_by_id"].v) = 2
            /\ c.val["choices_by_id"].v[2].val["index"] = Num(1)
            /\ c.val["index"] = Num(0)

\* The ids of the records of a table of the input.
RawIds(k) ==
    {RecordsIn(data0, k)[i].v["_id"] :
        i \in {j \in 1..Len(RecordsIn(data0, k)) : "_id" \in DOMAIN RecordsIn(data0, k)[j].v}}

\* The record declares a value under the key.
Declares(record, k) == k \in DOMAIN record.v /\ ~IsNone(record.v[k])

\* The ids the record declares under the key, as a list of ids or as one id.
DeclaredIds(record, k, many) ==
    IF ~Declares(record, k) THEN <<>>
    ELSE IF many THEN parse_ids_text(record.v[k])
    ELSE <<record.v[k]>>

\* The foreign keys: the table of the records, the key, whether it holds a
\* list of ids, the attribute, the table and the registry of the targets.
ForeignKeys ==
    {[of |-> "result_styles", key |-> "result_stat_type_ids", many |-> TRUE,
      attr |-> "result_stat_types", table |-> "result_stat_types",
      registry |-> "result_stat_types_by_id"],
     [of |-> "result_styles", key |-> "voting_group_ids", many |-> TRUE,
      attr |-> "voting_groups", table |-> "voting_groups",
      registry |-> "voting_groups_by_id"],
     [of |-> "contests", key |-> "result_style", many |-> FALSE,
      attr |-> "result_style", table |-> "result_styles",
      registry |-> "result_styles_by_id"],
     [of |-> "contests", key |-> "voting_district", many |-> FALSE,
      attr |-> "voting_district", table |-> "areas", registry |-> "areas_by_id"]}

\* The records that declare the foreign key.
RecordsOfKey(fk) ==
    IF fk.of = "contests" THEN RecordsIn(RawElection, "contests")
    ELSE RecordsIn(data0, "result_styles")

\* Some record declares an id that no record of the target table has.
Dangling(fk) ==
    \E i \in 1..Len(RecordsOfKey(fk)) :
        \E id \in Range(DeclaredIds(RecordsOfKey(fk)[i], fk.key, fk.many)) :
            id \notin RawIds(fk.table)

\* The entities of the loaded graph built from the records of the key.
LoadedOfKey(fk) ==
    IF fk.of = "contests"
    THEN (IF IsObject(DictGet(context, "election"))
             /\ IsReg(context["election"]["contests_by_id"])
          THEN context["election"]["contests_by_id"].v ELSE <<>>)
    ELSE (IF IsReg(context["result_styles_by_id"])
          THEN context["result_styles_by_id"].v ELSE <<>>)

\* Entity i holds the registry entries of the ids its record declares.
Resolved(fk, i) ==
    IF ~Declares(RecordsOfKey(fk)[i], fk.key) THEN IsNone(LoadedOfKey(fk)[i].val[fk.attr])
    ELSE /\ IsReg(context[fk.registry])
         /\ \A id \in Range(DeclaredIds(RecordsOfKey(fk)[i], fk.key, fk.many)) :
                HasKey(context[fk.registry].v, id)
         /\ LoadedOfKey(fk)[i].val[fk.attr]
                = IF fk.many
                  THEN List([n \in 1..Len(DeclaredIds(RecordsOfKey(fk)[i], fk.key, TRUE)) |->
                                Lookup(context[fk.registry].v,
                                       DeclaredIds(RecordsOfKey(fk)[i], fk.key, TRUE)[n])])
                  ELSE Lookup(context[fk.registry].v, RecordsOfKey(fk)[i].v[fk.key])

AllResolved ==
    \A fk \in ForeignKeys : \A i \in 1..Len(LoadedOfKey(fk)) : Resolved(fk, i)

C25_PublishedOnlyWhenBuilt ==
    /\ \A name \in TableNames \cap DOMAIN context : IsReg(context[name])
    /\ \A name \in TableNames :
            (IsNone(DictGet(data0, TableKey(name))) /\ Terminal) => name \notin DOMAIN context
    /\ pc = "failed" => ~(err.kind = "TypeError" /\ err.what = "not subscriptable")


-----------------------------------------------------------------------------
(* Further claims about the detailed results (SpecRes) *)

\* The width every stored tuple and row is to have.
TotalsWidth == call.contest.result_stat_count + Len(call.contest.choices_by_id)

\* The rows of the file whose width is not that of a full row.
OtherWidth == {i \in 1..Len(call.file.rows) : Len(call.file.rows[i]) # 2 + TotalsWidth}

\* C26: every tuple stored in rcv_totals and every row stored in results has
\* exactly stat count + choice count entries, and a results file with an RCV
\* row or a data row of any other width is rejected.
C26_TotalsWidth ==
    /\ pc = "res_done" =>
            /\ \A i \in 1..Len(obj.rcv_totals) : Len(obj.rcv_totals[i]) = TotalsWidth
            /\ \A i \in 1..Len(obj.results) : Len(obj.results[i]) = TotalsWidth
    /\ (ResTerminal /\ OtherWidth # {}) => pc = "res_failed"


-----------------------------------------------------------------------------
(* Further claims about contests and headers (Spec) *)

\* The contests of the loaded election.
LoadedContests ==
    IF IsObject(DictGet(context, "election")) THEN Range(LoadedWorld.contests) ELSE {}

ChoiceTypeNames == {"office", "measure", "ynoffice"}

\* The class the choices of a contest of the type are to have.
ChoiceClassOf(type_name) == IF type_name = "office" THEN "Candidate" ELSE "Choice"

\* Some contest record of the input names a type that has no choice loader.
OtherTypeName ==
    \E c \in RawContests :
        /\ "_type" \in DOMAIN c.v
        /\ c.v["_type"].t = "str"
        /\ c.v["_type"].v \notin ChoiceTypeNames

\* C27: after a successful load every entry of a contest's choice registry is
\* a Candidate when the contest's type name is "office" and a Choice when it
\* is "measure" or "ynoffice", and the contest's ResultsMapping has a
\* choice_count equal to the number of entries of that registry; a load whose
\* input holds a contest of any other type name ends in a failure.
C27_ChoiceClass ==
    /\ pc = "done" =>
        \A c \in LoadedContests :
            /\ c.val["type_name"].v \in ChoiceTypeNames
            /\ IsReg(c.val["choices_by_id"])
            /\ \A ch \in Range(c.val["choices_by_id"].v) :
                    ch.val["__class__"] = Str(ChoiceClassOf(c.val["type_name"].v))
            /\ c.val["results_mapping"].choice_count = Len(c.val["choices_by_id"].v)
    /\ (Terminal /\ OtherTypeName) => pc = "failed"

\* A "ynoffice" contest was loaded with its one choice, a Choice, and its
\* ResultsMapping counts one choice.
C27_Witness ==
    /\ pc = "done"
    /\ \E c \in LoadedContests :
            /\ c.val["type_name"] = Str("ynoffice")
            /\ Len(c.val["choices_by_id"].v) = 1
            /\ c.val["choices_by_id"].v[1].val["__class__"] = Str("Choice")
            /\ c.val["results_mapping"].choice_count = 1


\* The parent id a header or contest record of the input declares.
ParentIdOf(record) == IF "header_id" \in DOMAIN record.v THEN record.v["header_id"] ELSE Null

RefsOf(cls, n) == [i \in 1..n |-> ItemRef(cls, i)]

RecordOf(ref) ==
    RecordsIn(RawElection, IF ref.cls = "Header" THEN "headers" ELSE "contests")[ref.index + 1]

\* The headers and then the contests of the input that declare the id as
\* their parent, each kind in the order of its list.
DeclaredChildren(id) ==
    SelectSeq(RefsOf("Header", Len(RecordsIn(RawElection, "headers")))
                \o RefsOf("Contest", Len(RecordsIn(RawElection, "contests"))),
              LAMBDA ref : ParentIdOf(RecordOf(ref)) = id)

ChildrenInOrder ==
    (pc = "done" /\ IsObject(DictGet(context, "election"))) =>
        \A h \in Range(HeadersOf(LoadedWorld)) :
            h.val["ballot_items"] = List(DeclaredChildren(h.key))

\* C28: after a successful load each header's children list holds its child
\* headers first, in header declaration order, followed by its child
\* contests, in contest declaration order; the contest registry is built and
\* linked only once load_headers has returned, and no header is linked after
\* a contest was loaded.
C28_HeadersBeforeContests ==
    /\ []ChildrenInOrder
    /\ [][contests_by_id' # contests_by_id
            => (pc # "link_headers" /\ "headers_by_id" \in DOMAIN election)]_vars
    /\ [][pc' = "link_headers" => contests_by_id' = Null]_vars

\* Header b has a child header, a, declared before it, and a child contest:
\* its children list holds the header and then the contest.
C28_Witness ==
    /\ pc = "done"
    /\ IsObject(DictGet(context, "election"))
    /\ Len(HeadersOf(LoadedWorld)) = 2
    /\ HeadersOf(LoadedWorld)[2].key = Str("b")
    /\ HeadersOf(LoadedWorld)[2].val["ballot_items"]
            = List(<<ItemRef("Header", 1), ItemRef("Contest", 1)>>)

====
